---- MODULE Spec2Model ----
(***************************************************************************)
(* Model of madgui's constraint-driven optics matching:                    *)
(*   madgui/component/matchtool.py  (MatchTransform, _get_any_elem_param,  *)
(*                                   Matching)                             *)
(*   madgui/component/session.py    (Segment: elements, range, summary)    *)
(*                                                                         *)
(* Python dicts are functions whose DOMAIN is the key set, Python lists    *)
(* are sequences, an element (a dict) is a record.  A dict's iteration     *)
(* order is not fixed by the language the code targets, so every loop over *)
(* .items() runs in some order of the keys, chosen nondeterministically.   *)
(***************************************************************************)
EXTENDS Integers, Sequences, FiniteSets, TLC

VARIABLES
    elements,             \* Segment.elements / Matching._elements
    range,                \* Segment.start.index, Segment.stop.index
    summary,              \* Segment.summary (ex, ey)
    rules,                \* Matching._rules = app.conf['matching']
    view_axes,            \* the axes of the view (twiss_name, twiss_conj)
    constraints,          \* Matching.constraints: axis -> list of (elem, value)
    variable_parameters,  \* Matching._variable_parameters: axis -> list of (elem, params)
    last,                 \* the last operation called, what it fired and did
    sequence,             \* Segment.sequence.name
    twiss_args,           \* Segment.twiss_args, quantities with units
    madx,                 \* the optics state of the engine, session.madx
    tw,                   \* Segment.tw, the cached optics table
    cid,                  \* MatchTool.cid, the connection of the click handler
    solutions,            \* the optics states a solve can leave the engine in
    handlers,             \* the number of on_match callbacks connected to the canvas
    beam,                 \* Segment.beam, quantities with units
    madx_beam,            \* the beam of the sequence in the engine
    segment,              \* Session.segment: None or the data the segment was made from
    cursor,               \* the cursor of the panel (GetCursor / SetCursor)
    slots                 \* List.slots of a hook: the handlers, in registration order

vars == <<elements, range, summary, rules, view_axes, constraints, variable_parameters,
          last, sequence, twiss_args, madx, tw, cid, solutions, handlers,
          beam, madx_beam, segment, cursor, slots>>

-----------------------------------------------------------------------------
(* Bounds.                                                                 *)

\* Largest number of constraints held by the constraint set at one time.
MaxConstraints == 2

\* Largest number of elements of the element list replaced from the shell.
MaxEdits == 1

\* Largest number of handlers connected to a hook at one time.
MaxSlots == 3

\* Largest number of constraints collected by clicks with shift or control.
MaxClickConstraints == 4

-----------------------------------------------------------------------------
(* Values.                                                                 *)

\* A parameter value of an element: a number, with the expression it is
\* defined by when there is one (the _expression attribute).
NoExpression == "<no _expression>"
Lit(n) == [value |-> n, expression |-> NoExpression]
Expr(e) == [value |-> 1, expression |-> e]

Quad0 == [name |-> "Q1", type |-> "quadrupole", at |-> 0, l |-> 2,
          k1 |-> Lit(3), k2 |-> Expr("kq")]
Drift5 == [name |-> "D1", type |-> "drift", at |-> 5, l |-> 5]
Quad10 == [name |-> "Q2", type |-> "quadrupole", at |-> 10, l |-> 2,
           k1 |-> Lit(0), k2 |-> Expr("kq")]

K10 == [name |-> "K10", type |-> "quadrupole", at |-> 10, l |-> 5, k1 |-> Expr("ka")]
K25 == [name |-> "K25", type |-> "quadrupole", at |-> 25, l |-> 5, k1 |-> Lit(0)]
K40 == [name |-> "K40", type |-> "quadrupole", at |-> 40, l |-> 5, k1 |-> Lit(2)]
M50 == [name |-> "M50", type |-> "monitor", at |-> 50, l |-> 0]

QF == [name |-> "QF", type |-> "quadrupole", at |-> 0, l |-> 4, k1 |-> Expr("kf")]
BPM == [name |-> "BPM", type |-> "monitor", at |-> 4, l |-> 0]
QD == [name |-> "QD", type |-> "quadrupole", at |-> 4, l |-> 4,
       k1 |-> Lit(0), k2 |-> Lit(0)]

\* The rule tables of the configuration: axis -> element type -> parameter names.
RulesSame ==
    [a \in {"betx", "bety", "x"} |-> [t \in {"quadrupole"} |-> <<"k1">>]]
RulesDiffer ==
    [a \in {"betx", "bety"} |->
        [t \in {"quadrupole"} |-> IF a = "betx" THEN <<"k1">> ELSE <<"k1", "k2">>]]
RulesUserAxis ==
    [a \in {"envx", "envy"} |-> [t \in {"quadrupole"} |-> <<"k1">>]]

\* The setups explored: the sequence a segment is opened on with the index
\* range it covers, the rule tables, and the axes of the view the constraints
\* are put on (MatchTransform's methods).
Setups ==
    { [elements |-> <<Quad0, Drift5, Quad10>>, start |-> 0, stop |-> 2,
       rules |-> RulesSame, axes |-> {"envx", "envy"}],
      [elements |-> <<Quad0, Drift5, Quad10>>, start |-> 0, stop |-> 2,
       rules |-> RulesDiffer, axes |-> {"envx", "envy"}],
      [elements |-> <<Quad0, Drift5, Quad10>>, start |-> 0, stop |-> 2,
       rules |-> RulesUserAxis, axes |-> {"envx", "envy"}],
      [elements |-> <<K10, K25, K40, M50>>, start |-> 1, stop |-> 2,
       rules |-> RulesSame, axes |-> {"envx", "envy"}],
      [elements |-> <<QF, BPM, QD>>, start |-> 0, stop |-> 2,
       rules |-> RulesSame, axes |-> {"posx", "x"}] }

\* The targets a constraint is given, and the emittances of the beam.
Values == {2, 4}
Emittances == [ex |-> 2, ey |-> 4]

\* The beams a segment is given, as quantities with units.
BeamA == [ex |-> [magnitude |-> 2, unit |-> "m"], ey |-> [magnitude |-> 4, unit |-> "m"]]
BeamB == [ex |-> [magnitude |-> 8, unit |-> "m"], ey |-> [magnitude |-> 1, unit |-> "m"]]
Beams == {BeamA, BeamB}

\* The initial optics of the segment, as quantities with units.
TwissInit == [betx |-> [magnitude |-> 1, unit |-> "m"],
              bety |-> [magnitude |-> 3, unit |-> "m"],
              alfx |-> [magnitude |-> 0, unit |-> ""]]
TwissEdited == [betx |-> [magnitude |-> 5, unit |-> "m"],
                bety |-> [magnitude |-> 3, unit |-> "m"],
                alfx |-> [magnitude |-> 0, unit |-> ""]]
TwissInits == {TwissInit, TwissEdited}

\* The positions a click can have (event.xdata): none outside the axes.
Positions == {<<>>, <<0>>, <<4>>, <<9>>, <<20>>, <<27>>, <<50>>}

\* The columns of the table asked for by get_twiss.
Columns == {"s", "envx", "envy", "posy"}

-----------------------------------------------------------------------------
(* Sequence helpers (list comprehension, list.remove).                     *)

RemoveFirst(s, v) ==
    IF \E i \in DOMAIN s : s[i] = v
    THEN LET i == CHOOSE i \in DOMAIN s : s[i] = v /\ \A j \in 1..(i-1) : s[j] # v
         IN  SubSeq(s, 1, i-1) \o SubSeq(s, i+1, Len(s))
    ELSE s

Range(s) == {s[i] : i \in DOMAIN s}

\* All orders in which the keys of a dict can be iterated.
Orders(S) == {o \in [1..Cardinality(S) -> S] : Range(o) = S}

-----------------------------------------------------------------------------
(* The constraint set.                                                     *)

NoElem == [name |-> ""]
Idle == [op |-> "init", axis |-> "", elem |-> NoElem, value |-> 0,
         removed |-> <<>>, fired |-> <<>>, observed |-> <<>>,
         calls |-> <<>>, request |-> <<>>, seen |-> <<>>, result |-> <<>>,
         arg |-> <<>>, previous |-> <<>>, ran |-> <<>>,
         status |-> "", trace |-> <<>>,
         vary |-> <<>>, submitted |-> <<>>, solver |-> 0, twiss |-> 0]

gconstr(cs, axis) == IF axis \in DOMAIN cs THEN cs[axis] ELSE <<>>

find_constraint(axis, elem) ==
    SelectSeq(gconstr(constraints, axis), LAMBDA c : c[1] = elem)

\* Faulty variant: remove_constraint that leaves the emptied list under its axis.
RemoveKeepsAxis(cs, axis, elem) ==
    IF axis \notin DOMAIN cs
    THEN [constraints |-> cs, removed |-> <<>>, fired |-> <<>>, observed |-> <<>>]
    ELSE LET orig == cs[axis]
             filtered == SelectSeq(orig, LAMBDA c : c[1].name # elem.name)
             after == [cs EXCEPT ![axis] = filtered]
         IN  [constraints |-> after,
              removed |-> SelectSeq(orig, LAMBDA c : c[1].name = elem.name),
              fired |-> IF Len(filtered) < Len(orig)
                        THEN <<"remove_constraint">> ELSE <<>>,
              observed |-> IF Len(filtered) < Len(orig) THEN <<after>> ELSE <<>>]

\* Faulty variant: remove_constraint that notifies whenever the axis has constraints.
RemoveAlwaysNotifies(cs, axis, elem) ==
    IF axis \notin DOMAIN cs
    THEN [constraints |-> cs, removed |-> <<>>, fired |-> <<>>, observed |-> <<>>]
    ELSE LET orig == cs[axis]
             filtered == SelectSeq(orig, LAMBDA c : c[1].name # elem.name)
             after == IF filtered # <<>>
                      THEN [cs EXCEPT ![axis] = filtered]
                      ELSE [a \in DOMAIN cs \ {axis} |-> cs[a]]
         IN  [constraints |-> after,
              removed |-> SelectSeq(orig, LAMBDA c : c[1].name = elem.name),
              fired |-> <<"remove_constraint">>,
              observed |-> <<after>>]

\* Matching.remove_constraint on the dict cs: the dict afterwards, what was
\* filtered out, the hooks fired and the dict their handlers were shown.
RemoveConstraint(cs, axis, elem) ==
    IF axis \notin DOMAIN cs
    THEN [constraints |-> cs, removed |-> <<>>, fired |-> <<>>, observed |-> <<>>]
    ELSE LET orig == cs[axis]
             filtered == SelectSeq(orig, LAMBDA c : c[1].name # elem.name)
             after == IF filtered # <<>>
                      THEN [cs EXCEPT ![axis] = filtered]
                      ELSE [a \in DOMAIN cs \ {axis} |-> cs[a]]
         IN  [constraints |-> after,
              removed |-> SelectSeq(orig, LAMBDA c : c[1].name = elem.name),
              fired |-> IF Len(filtered) < Len(orig)
                        THEN <<"remove_constraint">> ELSE <<>>,
              observed |-> IF Len(filtered) < Len(orig) THEN <<after>> ELSE <<>>]

\* setdefault(axis, []).append((elem, envelope)) on the dict cs.
Appended(cs, axis, elem, envelope) ==
    [a \in DOMAIN cs \cup {axis} |->
        IF a = axis THEN Append(gconstr(cs, axis), <<elem, envelope>>) ELSE cs[a]]

\* Faulty variant: add_constraint without the call of remove_constraint.
AppendOnly(cs, axis, elem, envelope) ==
    [constraints |-> Appended(cs, axis, elem, envelope),
     removed |-> <<>>,
     fired |-> <<"add_constraint">>,
     observed |-> <<Appended(cs, axis, elem, envelope)>>]

\* Faulty variant: add_constraint that leaves an element's existing constraint alone.
AddIfAbsent(cs, axis, elem, envelope) ==
    IF \E i \in DOMAIN gconstr(cs, axis) : cs[axis][i][1].name = elem.name
    THEN [constraints |-> cs, removed |-> <<>>, fired |-> <<"add_constraint">>,
          observed |-> <<cs>>]
    ELSE AppendOnly(cs, axis, elem, envelope)

\* Faulty variant: add_constraint that fires its hook before it appends.
AddNotifiesFirst(cs, axis, elem, envelope) ==
    LET r == RemoveConstraint(cs, axis, elem)
    IN  [constraints |-> Appended(r.constraints, axis, elem, envelope),
         removed |-> r.removed,
         fired |-> r.fired \o <<"add_constraint">>,
         observed |-> r.observed \o <<r.constraints>>]

\* Matching.add_constraint on the dict cs.
AddConstraint(cs, axis, elem, envelope) ==
    LET r == RemoveConstraint(cs, axis, elem)
        after == Appended(r.constraints, axis, elem, envelope)
    IN  [constraints |-> after,
         removed |-> r.removed,
         fired |-> r.fired \o <<"add_constraint">>,
         observed |-> r.observed \o <<after>>]

NumConstraints(cs) ==
    LET RECURSIVE Sum(_)
        Sum(S) == IF S = {} THEN 0
                  ELSE LET a == CHOOSE a \in S : TRUE
                       IN  Len(cs[a]) + Sum(S \ {a})
    IN  Sum(DOMAIN cs)

add_constraint(axis, elem, envelope) ==
    LET r == AddConstraint(constraints, axis, elem, envelope)
    IN  /\ NumConstraints(r.constraints) <= MaxConstraints
        /\ constraints' = r.constraints
        /\ last' = [Idle EXCEPT !.op = "add_constraint", !.axis = axis,
                                !.elem = elem, !.value = envelope,
                                !.removed = r.removed, !.fired = r.fired,
                                !.observed = r.observed]
        /\ UNCHANGED <<elements, range, summary, rules, view_axes, variable_parameters,
                     sequence, twiss_args, madx, tw, cid, solutions, handlers, beam, madx_beam, segment, cursor, slots>>

remove_constraint(axis, elem) ==
    LET r == RemoveConstraint(constraints, axis, elem)
    IN  /\ constraints' = r.constraints
        /\ last' = [Idle EXCEPT !.op = "remove_constraint", !.axis = axis,
                                !.elem = elem,
                                !.removed = r.removed, !.fired = r.fired,
                                !.observed = r.observed]
        /\ UNCHANGED <<elements, range, summary, rules, view_axes, variable_parameters,
                     sequence, twiss_args, madx, tw, cid, solutions, handlers, beam, madx_beam, segment, cursor, slots>>

clear_constraints ==
    /\ constraints' = <<>>
    /\ last' = [Idle EXCEPT !.op = "clear_constraints",
                            !.fired = <<"clear_constraints">>,
                            !.observed = << <<>> >>]
    /\ UNCHANGED <<elements, range, summary, rules, view_axes, variable_parameters,
                 sequence, twiss_args, madx, tw, cid, solutions, handlers, beam, madx_beam, segment, cursor, slots>>

-----------------------------------------------------------------------------
(* Matching.match.                                                         *)

\* Faulty variant: MatchTransform with the emittances of the beam the engine has.
MatchTransformEngineBeam(axis, val) ==
    CASE axis = "envx" -> <<"betx", (val * val) \div madx_beam.ex>>
      [] axis = "envy" -> <<"bety", (val * val) \div madx_beam.ey>>
      [] axis = "x"    -> <<"x", val>>
      [] axis = "posx" -> <<"x", val>>
      [] axis = "y"    -> <<"y", val>>
      [] axis = "posy" -> <<"y", val>>

\* MatchTransform: the quantity a constraint on `axis` is passed to the
\* solver as.  The targets are chosen so that val*val/ex is a whole number.
MatchTransform(axis, val) ==
    CASE axis = "envx" -> <<"betx", (val * val) \div summary.ex>>
      [] axis = "envy" -> <<"bety", (val * val) \div summary.ey>>
      [] axis = "x"    -> <<"x", val>>
      [] axis = "posx" -> <<"x", val>>
      [] axis = "y"    -> <<"y", val>>
      [] axis = "posy" -> <<"y", val>>

\* trans_constr after the first loop of match for the constraint dict cs, its
\* axes taken in the order `order`: transformed name -> list of (elem, value).
RECURSIVE TransConstrOf(_, _, _)
TransConstrOf(cs, order, tc) ==
    IF order = <<>> THEN tc
    ELSE LET axis == Head(order)
             constr == cs[axis]
             name == MatchTransform(axis, 0)[1]
             this == [i \in DOMAIN constr |->
                         <<constr[i][1], MatchTransform(axis, constr[i][2])[2]>>]
         IN  TransConstrOf(cs, Tail(order),
                 [a \in DOMAIN tc \cup {name} |->
                     IF a = name THEN gconstr(tc, name) \o this ELSE tc[a]])

\* trans_constr of a call of match: that of self.constraints.
TransConstr(order, tc) == TransConstrOf(constraints, order, tc)

\* Faulty variant: the list comprehension of _allvars run from the end of the list.
RECURSIVE FilterElementsReversed(_, _)
FilterElementsReversed(elems, param_spec) ==
    IF elems = <<>> THEN <<>>
    ELSE LET elem == Head(elems)
         IN  FilterElementsReversed(Tail(elems), param_spec)
             \o (IF elem.type \in DOMAIN param_spec
                 THEN << <<elem, param_spec[elem.type]>> >> ELSE <<>>)

\* rules.get(axis, {}) and the list comprehension of _allvars.
RECURSIVE FilterElements(_, _)
FilterElements(elems, param_spec) ==
    IF elems = <<>> THEN <<>>
    ELSE LET elem == Head(elems)
         IN  (IF elem.type \in DOMAIN param_spec
              THEN << <<elem, param_spec[elem.type]>> >> ELSE <<>>)
             \o FilterElements(Tail(elems), param_spec)

\* Faulty variant: the rule table looked up under the name of the axis of the view.
AllvarsOfUserAxis(cache, axis) ==
    LET user == CASE axis = "betx" -> "envx" [] axis = "bety" -> "envy"
                  [] axis = "x" -> "posx" [] OTHER -> "posy"
    IN  IF axis \in DOMAIN cache THEN cache[axis]
        ELSE FilterElements(elements, IF user \in DOMAIN rules THEN rules[user] ELSE <<>>)

\* Faulty variant: _allvars that filters the element list at every call.
AllvarsRebuilt(cache, axis) ==
    FilterElements(elements, IF axis \in DOMAIN rules THEN rules[axis] ELSE <<>>)

\* Matching._allvars: the cached pool of the axis, built at the first call.
Allvars(cache, axis) ==
    IF axis \in DOMAIN cache THEN cache[axis]
    ELSE FilterElements(elements, IF axis \in DOMAIN rules THEN rules[axis] ELSE <<>>)

\* _get_any_elem_param: the expression or the name->param path, or ValueError.
ValueError == "<ValueError>"
None == "<None>"

\* Faulty variant: an expression of any parameter wins over a literal of an earlier one.
get_expression_first(elem, params) ==
    LET has(i) == params[i] \in DOMAIN elem
        exprs == {i \in DOMAIN params : has(i) /\ elem[params[i]].expression # NoExpression}
        lits == {i \in DOMAIN params : has(i) /\ elem[params[i]].value # 0}
        first(S) == CHOOSE i \in S : \A j \in S : i <= j
    IN  IF exprs # {} THEN elem[params[first(exprs)]].expression
        ELSE IF lits # {} THEN elem.name \o "->" \o params[first(lits)]
        ELSE ValueError

RECURSIVE get_any_elem_param(_, _)
get_any_elem_param(elem, params) ==
    IF params = <<>> THEN ValueError
    ELSE LET param == Head(params)
         IN  IF param \notin DOMAIN elem
             THEN get_any_elem_param(elem, Tail(params))
             ELSE IF elem[param].expression # NoExpression
             THEN elem[param].expression
             ELSE IF elem[param].value # 0
             THEN elem.name \o "->" \o param
             ELSE get_any_elem_param(elem, Tail(params))

\* Faulty variant: candidates at the position of the constraint allowed too.
AllowedUpTo(pool, at) == SelectSeq(pool, LAMBDA v : v[1].at <= at)

\* [v for v in allvars[axis] if v[0]['at'] < at]
Allowed(pool, at) == SelectSeq(pool, LAMBDA v : v[1].at < at)

\* Faulty variant: the first allowed candidate instead of the last upstream one.
FirstAllowed(allowed) == allowed[1]

\* max(allowed, key=lambda v: v[0]['at']): the first of the largest.
MaxByAt(allowed) ==
    LET i == CHOOSE i \in DOMAIN allowed :
                 /\ \A j \in DOMAIN allowed : allowed[j][1].at <= allowed[i][1].at
                 /\ \A j \in 1..(i-1) : allowed[j][1].at < allowed[i][1].at
    IN  allowed[i]

\* for c in allvars.values(): try: c.remove(v) ...
RemoveFromAll(allvars, v) ==
    [a \in DOMAIN allvars |-> RemoveFirst(allvars[a], v)]

NoKnob == <<>>

\* One pass of the inner loop body of the greedy selection, for the
\* constraint (elem, envelope) of `axis`.  g holds allvars, vary, whether
\* ValueError was raised, and a trace of what each pass saw and chose.
GreedyStep(g, axis, elem) ==
    LET at == elem.at
        allowed == Allowed(g.allvars[axis], at)
        v == MaxByAt(allowed)
        expr == get_any_elem_param(v[1], v[2])
        seen == [axis |-> axis, elem |-> elem, pool |-> g.allvars[axis]]
    IN  IF allowed = <<>>
        THEN [g EXCEPT !.trace = Append(@, seen @@ [knob |-> NoKnob, expr |-> None])]
        ELSE IF expr = ValueError
        THEN [g EXCEPT !.raised = TRUE,
                       !.trace = Append(@, seen @@ [knob |-> v, expr |-> expr])]
        ELSE IF expr = None
        THEN [g EXCEPT !.allvars[axis] = RemoveFirst(@, v),
                       !.trace = Append(@, seen @@ [knob |-> v, expr |-> expr])]
        ELSE [g EXCEPT !.vary = Append(@, expr),
                       !.allvars = RemoveFromAll(@, v),
                       !.trace = Append(@, seen @@ [knob |-> v, expr |-> expr])]

\* trans_constr as the list of (axis, elem, value) its loops visit, the keys
\* taken in the order `order`.
RECURSIVE Flatten(_, _)
Flatten(tc, order) ==
    IF order = <<>> THEN <<>>
    ELSE [i \in DOMAIN tc[Head(order)] |->
             [axis |-> Head(order), elem |-> tc[Head(order)][i][1],
              value |-> tc[Head(order)][i][2]]]
         \o Flatten(tc, Tail(order))

\* Faulty variant: the loops end at the first constraint left without a knob.
RECURSIVE GreedyStopsAtUnassigned(_, _)
GreedyStopsAtUnassigned(g, todo) ==
    IF todo = <<>> \/ g.raised THEN g
    ELSE IF g.trace # <<>> /\ g.trace[Len(g.trace)].knob = NoKnob THEN g
    ELSE GreedyStopsAtUnassigned(GreedyStep(g, Head(todo).axis, Head(todo).elem),
                                 Tail(todo))

RECURSIVE Greedy(_, _)
Greedy(g, todo) ==
    IF todo = <<>> \/ g.raised THEN g
    ELSE Greedy(GreedyStep(g, Head(todo).axis, Head(todo).elem), Tail(todo))

\* strip_unit of the unit tool: the bare number of a quantity.
strip_unit(name, val) == val

\* The constraints list passed to Madx.match.
SolverConstraints(todo) ==
    [i \in DOMAIN todo |->
        [range |-> todo[i].elem.name, name |-> todo[i].axis,
         value |-> strip_unit(todo[i].axis, todo[i].value)]]

\* dict_strip_unit of the unit tool: every quantity replaced by its magnitude.
dict_strip_unit(d) == [k \in DOMAIN d |-> d[k].magnitude]

\* The keyword arguments of the call of Madx.match.
SolverRequest(g, todo) ==
    [sequence |-> sequence, vary |-> g.vary,
     constraints |-> SolverConstraints(todo),
     twiss_init |-> dict_strip_unit(twiss_args)]

\* Faulty variant: a ValueError of the selection is swallowed and the knobs found so
\* far are submitted.
MatchOutcomeSubmitsPartial(g, todo, engine) ==
    IF engine = "MatchFailed"
    THEN [status |-> "MatchFailed", solver |-> 1, submitted |-> <<>>,
          vary |-> g.vary, twiss |-> 0, fired |-> <<>>,
          calls |-> <<"madx.match">>, request |-> SolverRequest(g, <<>>)]
    ELSE [status |-> IF g.raised THEN "ValueError" ELSE "done", solver |-> 1,
          submitted |-> <<>>, vary |-> g.vary, twiss |-> 1, fired |-> <<"update">>,
          calls |-> <<"madx.match", "madx.twiss", "update">>,
          request |-> SolverRequest(g, <<>>)]

\* Faulty variant: the table is refreshed before the solver is called.
MatchOutcomeTwissFirst(g, todo, engine) ==
    IF g.raised
    THEN [status |-> "ValueError", solver |-> 0, submitted |-> <<>>,
          vary |-> <<>>, twiss |-> 0, fired |-> <<>>,
          calls |-> <<>>, request |-> <<>>]
    ELSE IF engine = "MatchFailed"
    THEN [status |-> "MatchFailed", solver |-> 1, submitted |-> SolverConstraints(todo),
          vary |-> g.vary, twiss |-> 1, fired |-> <<"update">>,
          calls |-> <<"madx.twiss", "update", "madx.match">>,
          request |-> SolverRequest(g, todo)]
    ELSE IF engine = "TwissFailed"
    THEN [status |-> "TwissFailed", solver |-> 0, submitted |-> <<>>,
          vary |-> <<>>, twiss |-> 1, fired |-> <<>>,
          calls |-> <<"madx.twiss">>, request |-> <<>>]
    ELSE [status |-> "done", solver |-> 1, submitted |-> SolverConstraints(todo),
          vary |-> g.vary, twiss |-> 1, fired |-> <<"update">>,
          calls |-> <<"madx.twiss", "update", "madx.match">>,
          request |-> SolverRequest(g, todo)]

\* Faulty variant: the solver is not called when no knob was found.
MatchOutcomeSkipsEmptyVary(g, todo, engine) ==
    IF g.raised
    THEN [status |-> "ValueError", solver |-> 0, submitted |-> <<>>,
          vary |-> <<>>, twiss |-> 0, fired |-> <<>>,
          calls |-> <<>>, request |-> <<>>]
    ELSE IF g.vary = <<>>
    THEN [status |-> "done", solver |-> 0, submitted |-> <<>>,
          vary |-> <<>>, twiss |-> 0, fired |-> <<>>,
          calls |-> <<>>, request |-> <<>>]
    ELSE IF engine = "MatchFailed"
    THEN [status |-> "MatchFailed", solver |-> 1, submitted |-> SolverConstraints(todo),
          vary |-> g.vary, twiss |-> 0, fired |-> <<>>,
          calls |-> <<"madx.match">>, request |-> SolverRequest(g, todo)]
    ELSE IF engine = "TwissFailed"
    THEN [status |-> "TwissFailed", solver |-> 1, submitted |-> SolverConstraints(todo),
          vary |-> g.vary, twiss |-> 1, fired |-> <<>>,
          calls |-> <<"madx.match", "madx.twiss">>, request |-> SolverRequest(g, todo)]
    ELSE [status |-> "done", solver |-> 1, submitted |-> SolverConstraints(todo),
          vary |-> g.vary, twiss |-> 1, fired |-> <<"update">>,
          calls |-> <<"madx.match", "madx.twiss", "update">>,
          request |-> SolverRequest(g, todo)]

\* What a call of match does after the greedy selection g: the solver is
\* called unless the selection raised, twiss() unless the solver failed, and
\* twiss() fires hook.update unless the engine gave no table.  calls lists the
\* engine calls and the notifications in the order they happen.
MatchOutcome(g, todo, engine) ==
    IF g.raised
    THEN [status |-> "ValueError", solver |-> 0, submitted |-> <<>>,
          vary |-> <<>>, twiss |-> 0, fired |-> <<>>,
          calls |-> <<>>, request |-> <<>>]
    ELSE IF engine = "MatchFailed"
    THEN [status |-> "MatchFailed", solver |-> 1, submitted |-> SolverConstraints(todo),
          vary |-> g.vary, twiss |-> 0, fired |-> <<>>,
          calls |-> <<"madx.match">>, request |-> SolverRequest(g, todo)]
    ELSE IF engine = "TwissFailed"
    THEN [status |-> "TwissFailed", solver |-> 1, submitted |-> SolverConstraints(todo),
          vary |-> g.vary, twiss |-> 1, fired |-> <<>>,
          calls |-> <<"madx.match", "madx.twiss">>, request |-> SolverRequest(g, todo)]
    ELSE [status |-> "done", solver |-> 1, submitted |-> SolverConstraints(todo),
          vary |-> g.vary, twiss |-> 1, fired |-> <<"update">>,
          calls |-> <<"madx.match", "madx.twiss", "update">>,
          request |-> SolverRequest(g, todo)]

\* The optics states the engine can be in.
Optics == {1, 2}

\* The columns Madx.twiss gives for the rows of the range rng when the engine
\* is in the optics state o; s counts from the start of the range.
raw_twiss(o, elems, rng) ==
    [i \in 1..(rng.stop - rng.start + 1) |->
        [s |-> elems[rng.start + i].at - elems[rng.start + 1].at,
         betx |-> 2 * o * o, bety |-> o * o, x |-> o, y |-> 3 * o]]

\* The square root of a perfect square.
sqrt(n) == CHOOSE r \in 0..n : r * r = n

\* The table Segment.twiss() leaves in self.tw: the raw columns, s shifted by
\* the position of the first element of the range, the envelopes and the
\* aliases of x and y.
twiss(o, elems, rng, emit) ==
    LET results == raw_twiss(o, elems, rng)
    IN  [i \in DOMAIN results |->
            [s |-> results[i].s + elems[rng.start + 1].at,
             betx |-> results[i].betx, bety |-> results[i].bety,
             x |-> results[i].x, y |-> results[i].y,
             envx |-> sqrt(results[i].betx * emit.ex),
             envy |-> sqrt(results[i].bety * emit.ey),
             posx |-> results[i].x, posy |-> results[i].y]]

\* Faulty variant: the constraints are dropped when match raises.
ConstraintsDroppedOnError(cs, status) ==
    IF status = "done" THEN cs ELSE <<>>

\* self.constraints after a call of match: match only reads it.
ConstraintsAfterMatch(cs, status) == cs

\* Segment._use_beam: the beam stripped of its units, with the name of the
\* sequence, as madx.command.beam takes it.
use_beam(b) == [k \in DOMAIN b \cup {"sequence"} |->
                   IF k = "sequence" THEN sequence ELSE b[k].magnitude]

\* results.summary of a Madx.twiss run with the beam mb in the engine.
EngineSummary(mb) == [ex |-> mb.ex, ey |-> mb.ey]

\* The keyword arguments of Madx.twiss (Segment._get_twiss_args) when the
\* initial optics are t.
TwissRequest(t) ==
    [sequence |-> sequence, range |-> range, twiss_init |-> dict_strip_unit(t)]

\* Faulty variant: twiss() that calls hook.update before the derived columns are there.
TwissCallNotifiesEarly(o, mb, ok) ==
    IF ~ok
    THEN [tw |-> tw, summary |-> summary, fired |-> <<>>, seen |-> <<>>,
          calls |-> <<"madx.twiss">>, status |-> "TwissFailed"]
    ELSE [tw |-> twiss(o, elements, range, EngineSummary(mb)),
          summary |-> EngineSummary(mb),
          fired |-> <<"update">>,
          seen |-> << [tw |-> raw_twiss(o, elements, range),
                       summary |-> EngineSummary(mb)] >>,
          calls |-> <<"madx.twiss", "update">>, status |-> "done"]

\* Faulty variant: twiss() that drops the old table before it asks the engine.
TwissCallDropsTable(o, mb, ok) ==
    IF ~ok
    THEN [tw |-> <<>>, summary |-> summary, fired |-> <<"update">>,
          seen |-> << [tw |-> <<>>, summary |-> summary] >>,
          calls |-> <<"madx.twiss", "update">>, status |-> "TwissFailed"]
    ELSE [tw |-> twiss(o, elements, range, EngineSummary(mb)),
          summary |-> EngineSummary(mb),
          fired |-> <<"update">>,
          seen |-> << [tw |-> twiss(o, elements, range, EngineSummary(mb)),
                       summary |-> EngineSummary(mb)] >>,
          calls |-> <<"madx.twiss", "update">>, status |-> "done"]

\* Faulty variant: twiss() that shifts the position column of the table it holds.
TwissCallShiftAccumulates(o, mb, ok) ==
    IF ~ok
    THEN [tw |-> tw, summary |-> summary, fired |-> <<>>, seen |-> <<>>,
          calls |-> <<"madx.twiss">>, status |-> "TwissFailed"]
    ELSE LET new == twiss(o, elements, range, EngineSummary(mb))
             acc == [i \in DOMAIN new |->
                        [new[i] EXCEPT !.s = tw[i].s + elements[range.start + 1].at]]
         IN  [tw |-> acc, summary |-> EngineSummary(mb),
              fired |-> <<"update">>,
              seen |-> << [tw |-> acc, summary |-> EngineSummary(mb)] >>,
              calls |-> <<"madx.twiss", "update">>, status |-> "done"]

\* Faulty variant: twiss() that takes the envelopes from the summary it held before.
TwissCallOldSummary(o, mb, ok) ==
    IF ~ok
    THEN [tw |-> tw, summary |-> summary, fired |-> <<>>, seen |-> <<>>,
          calls |-> <<"madx.twiss">>, status |-> "TwissFailed"]
    ELSE [tw |-> twiss(o, elements, range, summary),
          summary |-> EngineSummary(mb),
          fired |-> <<"update">>,
          seen |-> << [tw |-> twiss(o, elements, range, summary),
                       summary |-> EngineSummary(mb)] >>,
          calls |-> <<"madx.twiss", "update">>, status |-> "done"]

\* One call of Segment.twiss() with the engine in the optics state o and its
\* beam mb; ok tells whether Madx.twiss gives a table.  When raw_twiss raises
\* nothing is assigned; else self.tw and self.summary are assigned, the
\* columns are completed and hook.update is fired last: seen is what its
\* listeners find in the segment.
TwissCall(o, mb, ok) ==
    IF ~ok
    THEN [tw |-> tw, summary |-> summary, fired |-> <<>>, seen |-> <<>>,
          calls |-> <<"madx.twiss">>, status |-> "TwissFailed"]
    ELSE [tw |-> twiss(o, elements, range, EngineSummary(mb)),
          summary |-> EngineSummary(mb),
          fired |-> <<"update">>,
          seen |-> << [tw |-> twiss(o, elements, range, EngineSummary(mb)),
                       summary |-> EngineSummary(mb)] >>,
          calls |-> <<"madx.twiss", "update">>, status |-> "done"]

\* Faulty variant: the table is refreshed whether or not the solver failed.
SegmentRefreshedAnyway(status, solved) ==
    IF status = "ValueError"
    THEN [madx |-> madx, tw |-> tw, summary |-> summary, seen |-> <<>>]
    ELSE [madx |-> solved] @@ TwissCall(solved, madx_beam, TRUE)

\* The engine and the segment after a call of match: Madx.match, once it is
\* called, leaves the engine in the optics state solved (which may be the
\* one it was in); self.tw and self.summary are assigned only by a twiss()
\* whose Madx.twiss gave a table.
SegmentAfterMatch(status, solved) ==
    IF status = "ValueError"
    THEN [madx |-> madx, tw |-> tw, summary |-> summary, seen |-> <<>>]
    ELSE IF status = "MatchFailed"
    THEN [madx |-> solved, tw |-> tw, summary |-> summary, seen |-> <<>>]
    ELSE [madx |-> solved] @@ TwissCall(solved, madx_beam, status = "done")

\* The greedy selection of one call of match, the keys of self.constraints
\* taken in the order order1 and those of trans_constr in the order order2.
Selection(order1, order2) ==
    LET trans_constr == TransConstr(order1, <<>>)
        todo == Flatten(trans_constr, order2)
    IN  [todo |-> todo,
         g |-> Greedy([allvars |-> [axis \in DOMAIN trans_constr |->
                                       Allvars(variable_parameters, axis)],
                       vary |-> <<>>, raised |-> FALSE, trace |-> <<>>], todo)]

TransNames == {MatchTransform(axis, 0)[1] : axis \in DOMAIN constraints}

\* The same for a call of match made while the constraint dict is cs.
SelectionOf(cs, order1, order2) ==
    LET trans_constr == TransConstrOf(cs, order1, <<>>)
        todo == Flatten(trans_constr, order2)
    IN  [todo |-> todo,
         g |-> Greedy([allvars |-> [axis \in DOMAIN trans_constr |->
                                       Allvars(variable_parameters, axis)],
                       vary |-> <<>>, raised |-> FALSE, trace |-> <<>>], todo)]

TransNamesOf(cs) == {MatchTransform(axis, 0)[1] : axis \in DOMAIN cs}

\* Faulty variant: the selection works on the cached lists themselves, not on copies.
CachedPoolsDepleted(cache, names, g) ==
    [axis \in DOMAIN cache \cup names |->
        IF axis \in DOMAIN g.allvars THEN g.allvars[axis] ELSE cache[axis]]

\* self._variable_parameters after a call of match whose trans_constr has
\* the keys names: _allvars has cached the pool of each of them, and the
\* selection g has worked on copies.
CachedPools(cache, names, g) ==
    [axis \in DOMAIN cache \cup names |-> Allvars(cache, axis)]

match ==
    \E order1 \in Orders(DOMAIN constraints), order2 \in Orders(TransNames) :
        \E sel \in {Selection(order1, order2)} :
            \E engine \in {"ok", "MatchFailed", "TwissFailed"}, solved \in solutions :
                \E out \in {MatchOutcome(sel.g, sel.todo, engine)} :
                    \E seg \in {SegmentAfterMatch(out.status, solved)} :
                        /\ variable_parameters' =
                               CachedPools(variable_parameters, TransNames, sel.g)
                        /\ last' = [op |-> "match", axis |-> "", elem |-> NoElem,
                                    value |-> 0, removed |-> <<>>, observed |-> <<>>,
                                    seen |-> seg.seen, result |-> <<>>,
                                    arg |-> <<>>, previous |-> <<>>, ran |-> <<>>,
                                    trace |-> sel.g.trace] @@ out
                        /\ constraints' = ConstraintsAfterMatch(constraints, out.status)
                        /\ madx' = seg.madx
                        /\ tw' = seg.tw
                        /\ summary' = seg.summary
                        /\ UNCHANGED <<elements, range, rules, view_axes,
                                       sequence, twiss_args, cid, solutions, handlers, beam, madx_beam, segment, cursor, slots>>

-----------------------------------------------------------------------------

\* Faulty variant: stop_match that forgets the connection without disconnecting it.
StopMatchKeepsHandler ==
    IF cid = None
    THEN [constraints |-> constraints, fired |-> <<>>, observed |-> <<>>,
          handlers |-> handlers]
    ELSE [constraints |-> <<>>, fired |-> <<"clear_constraints", "stop">>,
          observed |-> << <<>> >>, handlers |-> handlers]

\* MatchTool.stop_match: nothing unless the click handler is connected; else
\* it is disconnected and Matching.stop clears the constraints and fires stop.
StopMatch ==
    IF cid = None
    THEN [constraints |-> constraints, fired |-> <<>>, observed |-> <<>>,
          handlers |-> handlers]
    ELSE [constraints |-> <<>>, fired |-> <<"clear_constraints", "stop">>,
          observed |-> << <<>> >>, handlers |-> handlers - 1]

stop_match ==
    /\ constraints' = StopMatch.constraints
    /\ cid' = None
    /\ handlers' = StopMatch.handlers
    /\ last' = [Idle EXCEPT !.op = "stop_match", !.fired = StopMatch.fired,
                            !.observed = StopMatch.observed]
    /\ UNCHANGED <<elements, range, summary, rules, view_axes, variable_parameters,
                   sequence, twiss_args, madx, tw, solutions, beam, madx_beam, segment, cursor, slots>>

\* Faulty variant: start_match that connects its handler without firing
\* capture_mouse first.
StartMatchNoCapture ==
    [handlers |-> handlers + 1, fired |-> <<"start">>, observed |-> <<>>,
     calls |-> <<"mpl_connect">>]

\* What start_match does to the canvas and which hooks it fires: capture_mouse
\* runs stop_match, which disconnects the handler of a running session, then
\* the new handler is connected and start is fired.
StartMatch ==
    [handlers |-> StopMatch.handlers + 1,
     fired |-> <<"capture_mouse">> \o StopMatch.fired \o <<"start">>,
     observed |-> StopMatch.observed,
     calls |-> (IF cid = None THEN <<>> ELSE <<"mpl_disconnect">>)
               \o <<"mpl_connect">>]

\* MatchTool.start_match: capture_mouse stops the running session, the click
\* handler is connected and a new Matching is made for the segment.
start_match ==
    /\ cid' = "button_press_event"
    /\ handlers' = StartMatch.handlers
    /\ constraints' = <<>>
    /\ variable_parameters' = <<>>
    /\ last' = [Idle EXCEPT !.op = "start_match",
                            !.fired = StartMatch.fired,
                            !.calls = StartMatch.calls,
                            !.observed = StartMatch.observed]
    /\ UNCHANGED <<elements, range, summary, rules, view_axes,
                   sequence, twiss_args, madx, tw, solutions, beam, madx_beam, segment, cursor, slots>>

\* The elements replaced in the list so far.
Edited == {i \in DOMAIN elements : elements[i].type = "marker"}

\* The shell of the main frame has the list segment.elements in its
\* namespace: elements[i] = dict(elements[i], type='marker').
edit_elements(i) ==
    /\ elements[i].type # "marker"
    /\ Cardinality(Edited) < MaxEdits
    /\ elements' = [elements EXCEPT ![i].type = "marker"]
    /\ last' = [Idle EXCEPT !.op = "edit_elements", !.elem = elements'[i]]
    /\ UNCHANGED <<range, summary, rules, view_axes, constraints, variable_parameters,
                   sequence, twiss_args, madx, tw, cid, solutions, handlers, beam, madx_beam, segment, cursor, slots>>

-----------------------------------------------------------------------------
(* Hooks: Multicast.__call__ and List.connect, List.disconnect.            *)

\* The handlers that are connected to the hook, and what a handler does to
\* the hook when it is called: nothing, connect a handler or disconnect one.
Handlers == {"h1", "h2", "h3"}
Effects ==
    {[kind |-> "none", slot |-> ""]}
    \cup {[kind |-> k, slot |-> h] : k \in {"connect", "disconnect"}, h \in Handlers}

\* Faulty variant: the loop runs over the list itself, not over a copy of it.
RECURSIVE DispatchLive(_, _, _, _)
DispatchLive(todo, live, ran, beh) ==
    IF Len(ran) >= Len(live) \/ Len(ran) > MaxSlots
    THEN [ran |-> ran, slots |-> live, status |-> "done"]
    ELSE LET h == live[Len(ran) + 1]
             e == beh[h]
         IN  IF e.kind = "connect"
             THEN DispatchLive(todo, Append(live, e.slot), Append(ran, h), beh)
             ELSE IF e.kind = "disconnect"
             THEN IF e.slot \in Range(live)
                  THEN DispatchLive(todo, RemoveFirst(live, e.slot), Append(ran, h), beh)
                  ELSE [ran |-> Append(ran, h), slots |-> live, status |-> "ValueError"]
             ELSE DispatchLive(todo, live, Append(ran, h), beh)

\* for slot in list(self.slots): slot(*args, **kwargs).  todo is what is left
\* of the copy, live is self.slots, ran the handlers called so far; the
\* handler h does beh[h] to the hook.  list.remove raises ValueError for a
\* handler that is not connected, and the exception ends the loop.
RECURSIVE Dispatch(_, _, _, _)
Dispatch(todo, live, ran, beh) ==
    IF todo = <<>>
    THEN [ran |-> ran, slots |-> live, status |-> "done"]
    ELSE LET h == Head(todo)
             e == beh[h]
         IN  IF e.kind = "connect"
             THEN Dispatch(Tail(todo), Append(live, e.slot), Append(ran, h), beh)
             ELSE IF e.kind = "disconnect"
             THEN IF e.slot \in Range(live)
                  THEN Dispatch(Tail(todo), RemoveFirst(live, e.slot), Append(ran, h), beh)
                  ELSE [ran |-> Append(ran, h), slots |-> live, status |-> "ValueError"]
             ELSE Dispatch(Tail(todo), live, Append(ran, h), beh)

\* Multicast.__call__ on a List hook.
call_hook(beh) ==
    /\ \E r \in {Dispatch(slots, slots, <<>>, beh)} :
          /\ Len(r.slots) <= MaxSlots
          /\ slots' = r.slots
          /\ last' = [Idle EXCEPT !.op = "call_hook", !.arg = <<beh>>,
                                  !.previous = slots, !.ran = r.ran,
                                  !.status = r.status]
    /\ UNCHANGED <<elements, range, summary, rules, view_axes, constraints,
                   variable_parameters, sequence, twiss_args, madx, tw, cid,
                   solutions, handlers, beam, madx_beam, segment, cursor>>

\* List.connect: the handler is appended, also when it is connected already.
connect(h) ==
    /\ Len(slots) < MaxSlots
    /\ slots' = Append(slots, h)
    /\ last' = [Idle EXCEPT !.op = "connect", !.previous = slots, !.status = "done"]
    /\ UNCHANGED <<elements, range, summary, rules, view_axes, constraints,
                   variable_parameters, sequence, twiss_args, madx, tw, cid,
                   solutions, handlers, beam, madx_beam, segment, cursor>>

\* List.disconnect: list.remove takes out the first occurrence, or raises.
disconnect(h) ==
    /\ slots' = RemoveFirst(slots, h)
    /\ last' = [Idle EXCEPT !.op = "disconnect", !.previous = slots,
                            !.status = IF h \in Range(slots) THEN "done"
                                       ELSE "ValueError"]
    /\ UNCHANGED <<elements, range, summary, rules, view_axes, constraints,
                   variable_parameters, sequence, twiss_args, madx, tw, cid,
                   solutions, handlers, beam, madx_beam, segment, cursor>>

-----------------------------------------------------------------------------
(* Segment: the setters, the lookups and the construction.                 *)

\* Python's 0-based index of the element called name in the sequence
\* (sequence.elements.index), and Segment.contains for an index.
index(name) == (CHOOSE i \in DOMAIN elements : elements[i].name = name) - 1

\* Faulty variant: contains that leaves out the first element of the range.
ContainsAfterStart(i) == range.start < i /\ range.stop >= i

contains(i) == range.start <= i /\ range.stop >= i

\* Segment.get_twiss: the entry of the column for the element, in a sequence
\* of its own, or the empty sequence for None.
GetTwiss(elem, name) ==
    IF ~contains(index(elem.name)) THEN <<>>
    ELSE << tw[index(elem.name) - range.start + 1][name] >>

get_twiss(elem, name) ==
    /\ segment # <<>>
    /\ last' = [Idle EXCEPT !.op = "get_twiss", !.elem = elem, !.axis = name,
                            !.result = GetTwiss(elem, name)]
    /\ UNCHANGED <<elements, range, summary, rules, view_axes, constraints,
                   variable_parameters, sequence, twiss_args, madx, tw, cid,
                   solutions, handlers, beam, madx_beam, segment, cursor, slots>>

\* Faulty variant: element_by_position with the end of the element left out.
RECURSIVE ElementByPositionHalfOpen(_, _)
ElementByPositionHalfOpen(elems, pos) ==
    IF pos = <<>> \/ elems = <<>> THEN <<>>
    ELSE IF pos[1] >= Head(elems).at /\ pos[1] < Head(elems).at + Head(elems).l
    THEN <<Head(elems)>>
    ELSE ElementByPositionHalfOpen(Tail(elems), pos)

\* Segment.element_by_position over the list elems: the element found, in a
\* sequence of its own, or the empty sequence for None; pos is the empty
\* sequence for None.
RECURSIVE ElementByPosition(_, _)
ElementByPosition(elems, pos) ==
    IF pos = <<>> \/ elems = <<>> THEN <<>>
    ELSE IF pos[1] >= Head(elems).at /\ pos[1] <= Head(elems).at + Head(elems).l
    THEN <<Head(elems)>>
    ELSE ElementByPosition(Tail(elems), pos)

element_by_position(pos) ==
    /\ segment # <<>>
    /\ last' = [Idle EXCEPT !.op = "element_by_position", !.arg = pos,
                            !.result = ElementByPosition(elements, pos)]
    /\ UNCHANGED <<elements, range, summary, rules, view_axes, constraints,
                   variable_parameters, sequence, twiss_args, madx, tw, cid,
                   solutions, handlers, beam, madx_beam, segment, cursor, slots>>

\* The twiss_args setter: the value is stored, then twiss() is called.
set_twiss_args(t, ok) ==
    /\ segment # <<>>
    /\ \E r \in {TwissCall(madx, madx_beam, ok)} :
          /\ twiss_args' = t
          /\ tw' = r.tw
          /\ summary' = r.summary
          /\ last' = [Idle EXCEPT !.op = "set_twiss_args", !.arg = <<t>>,
                                  !.previous = <<twiss_args>>,
                                  !.calls = r.calls, !.fired = r.fired,
                                  !.seen = r.seen, !.status = r.status,
                                  !.request = TwissRequest(t)]
    /\ UNCHANGED <<elements, range, rules, view_axes, constraints,
                   variable_parameters, sequence, madx, cid,
                   solutions, handlers, beam, madx_beam, segment, cursor, slots>>

\* Faulty variant: the beam setter that does nothing when the beam is the one it has.
BeamSetterSkipsEqual(b, ok) ==
    IF b = beam
    THEN [beam |-> beam, madx_beam |-> madx_beam, tw |-> tw, summary |-> summary,
          fired |-> <<>>, seen |-> <<>>, calls |-> <<>>, status |-> "done"]
    ELSE [beam |-> b, madx_beam |-> use_beam(b)]
         @@ [TwissCall(madx, use_beam(b), ok) EXCEPT
                !.calls = <<"madx.command.beam">> \o @]

\* The beam setter: the value is stored, _use_beam gives it to the engine,
\* then twiss() is called.
BeamSetter(b, ok) ==
    [beam |-> b, madx_beam |-> use_beam(b)]
    @@ [TwissCall(madx, use_beam(b), ok) EXCEPT
           !.calls = <<"madx.command.beam">> \o @]

set_beam(b, ok) ==
    /\ segment # <<>>
    /\ \E r \in {BeamSetter(b, ok)} :
          /\ beam' = r.beam
          /\ madx_beam' = r.madx_beam
          /\ tw' = r.tw
          /\ summary' = r.summary
          /\ last' = [Idle EXCEPT !.op = "set_beam", !.arg = <<b>>,
                                  !.previous = <<beam>>,
                                  !.calls = r.calls, !.fired = r.fired,
                                  !.seen = r.seen, !.status = r.status,
                                  !.request = TwissRequest(twiss_args)]
    /\ UNCHANGED <<elements, range, rules, view_axes, constraints,
                   variable_parameters, sequence, twiss_args, madx, cid,
                   solutions, handlers, segment, cursor, slots>>

\* What Session.segment is known by: the sequence and the range it was asked for.
SegmentData(seq, start_name, stop_name) ==
    [sequence |-> seq, range |-> <<start_name, stop_name>>]

\* The segment m after Segment.__init__, which ends with twiss().
Constructed(m) ==
    /\ elements = m.elements
    /\ range = [start |-> m.start, stop |-> m.stop]
    /\ rules = m.rules
    /\ view_axes = m.axes
    /\ sequence = "seq"
    /\ twiss_args = TwissInit
    /\ beam = BeamA
    /\ madx_beam = use_beam(BeamA)
    /\ madx = 1
    /\ summary = EngineSummary(madx_beam)
    /\ tw = twiss(1, elements, range, summary)
    /\ cursor = "orig"
    /\ slots = <<>>
    /\ segment = << SegmentData(sequence, m.elements[m.start + 1].name,
                             m.elements[m.stop + 1].name) >>

\* The sequences the engine has defined, and the names an endpoint of a
\* range can be given.
Sequences == {"seq"}
RangeNames == {elements[i].name : i \in DOMAIN elements} \cup {"nosuch"}

\* Faulty variant: init_segment that makes the segment the session's before
\* its table is computed.
NewSegmentAssignedFirst(seq, a, z, b, t, ok) ==
    IF seq \notin Sequences
    THEN [status |-> "KeyError", segment |-> segment, range |-> range,
          beam |-> beam, twiss_args |-> twiss_args, madx_beam |-> madx_beam,
          tw |-> tw, summary |-> summary, calls |-> <<>>]
    ELSE IF ~ {a, z} \subseteq {elements[i].name : i \in DOMAIN elements}
    THEN [status |-> "ValueError", segment |-> segment, range |-> range,
          beam |-> beam, twiss_args |-> twiss_args, madx_beam |-> madx_beam,
          tw |-> tw, summary |-> summary, calls |-> <<>>]
    ELSE IF ~ok
    THEN [status |-> "TwissFailed", segment |-> << SegmentData(seq, a, z) >>,
          range |-> [start |-> index(a), stop |-> index(z)],
          beam |-> b, twiss_args |-> t, madx_beam |-> use_beam(b),
          tw |-> <<>>, summary |-> summary,
          calls |-> <<"madx.command.beam", "madx.twiss">>]
    ELSE [status |-> "done", segment |-> << SegmentData(seq, a, z) >>,
          range |-> [start |-> index(a), stop |-> index(z)],
          beam |-> b, twiss_args |-> t, madx_beam |-> use_beam(b),
          tw |-> twiss(madx, elements, [start |-> index(a), stop |-> index(z)],
                       EngineSummary(use_beam(b))),
          summary |-> EngineSummary(use_beam(b)),
          calls |-> <<"madx.command.beam", "madx.twiss">>]

\* Segment(...) as called by Session.init_segment: the sequence is looked up,
\* the endpoints of the range are looked up, the beam is given to the engine,
\* the table is computed; session.segment is assigned when the constructor
\* has returned.
NewSegment(seq, a, z, b, t, ok) ==
    IF seq \notin Sequences
    THEN [status |-> "KeyError", segment |-> segment, range |-> range,
          beam |-> beam, twiss_args |-> twiss_args, madx_beam |-> madx_beam,
          tw |-> tw, summary |-> summary, calls |-> <<>>]
    ELSE IF ~ {a, z} \subseteq {elements[i].name : i \in DOMAIN elements}
    THEN [status |-> "ValueError", segment |-> segment, range |-> range,
          beam |-> beam, twiss_args |-> twiss_args, madx_beam |-> madx_beam,
          tw |-> tw, summary |-> summary, calls |-> <<>>]
    ELSE IF ~ok
    THEN [status |-> "TwissFailed", segment |-> segment, range |-> range,
          beam |-> beam, twiss_args |-> twiss_args, madx_beam |-> use_beam(b),
          tw |-> tw, summary |-> summary,
          calls |-> <<"madx.command.beam", "madx.twiss">>]
    ELSE [status |-> "done", segment |-> << SegmentData(seq, a, z) >>,
          range |-> [start |-> index(a), stop |-> index(z)],
          beam |-> b, twiss_args |-> t, madx_beam |-> use_beam(b),
          tw |-> twiss(madx, elements, [start |-> index(a), stop |-> index(z)],
                       EngineSummary(use_beam(b))),
          summary |-> EngineSummary(use_beam(b)),
          calls |-> <<"madx.command.beam", "madx.twiss">>]

init_segment(seq, a, z, b, t, ok) ==
    /\ seq \notin Sequences => (a = elements[1].name /\ z = a /\ b = BeamA /\ ok)
    /\ ~ {a, z} \subseteq {elements[i].name : i \in DOMAIN elements}
          => (b = BeamA /\ ok)
    /\ \E r \in {NewSegment(seq, a, z, b, t, ok)} :
          /\ segment' = r.segment
          /\ range' = r.range
          /\ beam' = r.beam
          /\ twiss_args' = r.twiss_args
          /\ madx_beam' = r.madx_beam
          /\ tw' = r.tw
          /\ summary' = r.summary
          /\ last' = [Idle EXCEPT !.op = "init_segment", !.status = r.status,
                                  !.previous = segment,
                                  !.calls = r.calls,
                                  !.request = <<seq, a, z>>]
    /\ UNCHANGED <<elements, rules, view_axes, constraints,
                   variable_parameters, sequence, madx, cid, solutions, handlers,
                   cursor, slots>>

\* A Matching just made by start_match for one of the segments, whose
\* lattice has one optics solution.
Init ==
    /\ \E m \in Setups : Constructed(m)
    /\ constraints = <<>>
    /\ variable_parameters = <<>>
    /\ last = Idle
    /\ cid = "button_press_event"
    /\ solutions = {1}
    /\ handlers = 1

Next ==
    \/ \E axis \in view_axes, elem \in Range(elements), envelope \in Values :
          add_constraint(axis, elem, envelope)
    \/ \E axis \in view_axes, elem \in Range(elements) :
          remove_constraint(axis, elem)
    \/ clear_constraints
    \/ match

Spec == Init /\ [][Next]_vars

\* The segments matched with an engine whose lattice has several optics
\* solutions.
EngineSetups == {m \in Setups : m.rules = RulesSame /\ m.axes = {"envx", "envy"}
                                 /\ Len(m.elements) = 3}

\* A Matching just made by start_match for one of these segments.
InitEngine ==
    /\ \E m \in EngineSetups : Constructed(m)
    /\ constraints = <<>>
    /\ variable_parameters = <<>>
    /\ last = Idle
    /\ cid = "button_press_event"
    /\ solutions = Optics
    /\ handlers = 1

SpecEngine == InitEngine /\ [][Next]_vars

\* The segments of the sessions of the match tool.
ToolSetups == {m \in Setups : m.rules = RulesSame /\ m.axes = {"envx", "envy"}
                               /\ Len(m.elements) = 3}

\* The envelopes asked for in the sessions of the match tool.
ToolValues == {4}

\* A MatchTool just made for the panel of one of the segments: no click
\* handler, no Matching.
InitTool ==
    /\ \E m \in ToolSetups : Constructed(m)
    /\ constraints = <<>>
    /\ variable_parameters = <<>>
    /\ last = Idle
    /\ cid = None
    /\ solutions = {1}
    /\ handlers = 0

\* The methods of Matching are called by the click handler on_match, which
\* the canvas calls as long as it is connected.
NextTool ==
    \/ \E axis \in view_axes, elem \in Range(elements), envelope \in ToolValues :
          handlers > 0 /\ add_constraint(axis, elem, envelope)
    \/ \E axis \in view_axes, elem \in Range(elements) :
          handlers > 0 /\ remove_constraint(axis, elem)
    \/ (handlers > 0 /\ clear_constraints)
    \/ (handlers > 0 /\ match)
    \/ start_match
    \/ stop_match
    \/ \E i \in DOMAIN elements : edit_elements(i)

SpecTool == InitTool /\ [][NextTool]_vars

\* The range a/z names its endpoints in the order of the sequence.
InOrder(a, z) ==
    {a, z} \subseteq {elements[i].name : i \in DOMAIN elements}
        => index(a) <= index(z)

\* The lattices of the sessions in which segments are made and queried.
SegmentSetups == {m \in Setups : Len(m.elements) = 4 \/ m.axes = {"posx", "x"}}

\* A session whose model is loaded and that has no segment yet.
InitSegment ==
    /\ \E m \in SegmentSetups :
          /\ elements = m.elements
          /\ rules = m.rules
          /\ view_axes = m.axes
    /\ range = [start |-> 0, stop |-> 0]
    /\ sequence = "seq"
    /\ twiss_args = TwissInit
    /\ beam = BeamA
    /\ madx_beam = use_beam(BeamA)
    /\ madx = 1
    /\ summary = EngineSummary(madx_beam)
    /\ tw = <<>>
    /\ segment = <<>>
    /\ cursor = "orig"
    /\ slots = <<>>
    /\ constraints = <<>>
    /\ variable_parameters = <<>>
    /\ last = Idle
    /\ cid = None
    /\ solutions = {1}
    /\ handlers = 0

NextSegment ==
    \/ \E seq \in Sequences \cup {"nosuch"}, a \in RangeNames, z \in RangeNames,
          b \in Beams, ok \in BOOLEAN :
          /\ InOrder(a, z)
          /\ init_segment(seq, a, z, b, TwissInit, ok)
    \/ \E t \in TwissInits, ok \in BOOLEAN : set_twiss_args(t, ok)
    \/ \E b \in Beams, ok \in BOOLEAN : set_beam(b, ok)
    \/ \E elem \in Range(elements), name \in Columns : get_twiss(elem, name)
    \/ \E pos \in Positions : element_by_position(pos)

SpecSegment == InitSegment /\ [][NextSegment]_vars

\* Sessions in which a range is given by any two names, in any order.
NextRange ==
    \/ \E seq \in Sequences \cup {"nosuch"}, a \in RangeNames, z \in RangeNames,
          b \in Beams, ok \in BOOLEAN :
          init_segment(seq, a, z, b, TwissInit, ok)
    \/ \E elem \in Range(elements), name \in Columns : get_twiss(elem, name)

SpecRange == InitSegment /\ [][NextRange]_vars

\* The segments of the sessions in which the beam is edited while
\* constraints are held.
TransformSetups == ToolSetups \cup {m \in Setups : m.axes = {"posx", "x"}}

\* A Matching just made by start_match for one of these segments.
InitTransform ==
    /\ \E m \in TransformSetups : Constructed(m)
    /\ constraints = <<>>
    /\ variable_parameters = <<>>
    /\ last = Idle
    /\ cid = "button_press_event"
    /\ solutions = {1}
    /\ handlers = 1

NextTransform ==
    \/ \E axis \in view_axes, elem \in Range(elements), envelope \in ToolValues :
          add_constraint(axis, elem, envelope)
    \/ match
    \/ \E b \in Beams, ok \in BOOLEAN : set_beam(b, ok)

SpecTransform == InitTransform /\ [][NextTransform]_vars

\* A hook of a HookCollection, made without entry point: no handler yet.
InitHook ==
    /\ \E m \in ToolSetups : Constructed(m)
    /\ constraints = <<>>
    /\ variable_parameters = <<>>
    /\ last = Idle
    /\ cid = None
    /\ solutions = {1}
    /\ handlers = 0

NextHook ==
    \/ \E h \in Handlers : connect(h)
    \/ \E h \in Handlers : disconnect(h)
    \/ \E beh \in [Handlers -> Effects] : call_hook(beh)

SpecHook == InitHook /\ [][NextHook]_vars

-----------------------------------------------------------------------------
(* MatchTool.on_match, the click handler.                                  *)

\* The axes of the view a click can be in, with the quantity they show
\* (twiss_name) and the quantity of the other plane (twiss_conj); the empty
\* sequence is event.inaxes = None.
Conj(name) ==
    CASE name = "envx" -> "envy" [] name = "envy" -> "envx"
      [] name = "posx" -> "posy" [] name = "posy" -> "posx"
      [] name = "x" -> "y" [] name = "y" -> "x"
ClickAxes == {<<>>} \cup {<< [name |-> a, conj |-> Conj(a)] >> : a \in view_axes}

\* The positions, buttons and keys of the clicks explored.
ClickPositions == {1, 11, 27, 42}
Buttons == {1, 2, 3}
Keys == {"", "shift", "control"}

\* any(add_key in pressed_keys for add_key in ['shift', 'control'])
AddKey(key) == key \in {"shift", "control"}

\* The target None, which get_twiss gives for an element outside the range.
\* MatchTransform.envx and envy square the target, which raises TypeError
\* for None.
NoTarget == -1
HasNoTarget(cs) ==
    \E axis \in DOMAIN cs \cap {"envx", "envy"} :
        \E i \in DOMAIN cs[axis] : cs[axis][i][2] = NoTarget

\* on_match up to the call of match (lines 84-119): whether match is reached,
\* the constraints then, the notifications fired and the methods called.
Click(event) ==
    LET name == event.inaxes[1].name
        conj == event.inaxes[1].conj
        found == ElementByPosition(elements, <<event.xdata>>)
        elem == found[1]
        r1 == RemoveConstraint(constraints, name, elem)
        r2 == RemoveConstraint(r1.constraints, conj, elem)
        cs0 == IF AddKey(event.key) THEN constraints ELSE <<>>
        a1 == AddConstraint(cs0, name, elem, event.ydata)
        orth_env == GetTwiss(elem, conj)
        a2 == AddConstraint(a1.constraints, conj, elem,
                            IF orth_env = <<>> THEN NoTarget ELSE orth_env[1])
    IN  IF event.inaxes = <<>>
        THEN [matching |-> FALSE, status |-> "no axes", constraints |-> constraints,
              fired |-> <<>>, calls |-> <<>>]
        ELSE IF found = <<>>
        THEN [matching |-> FALSE, status |-> "no element", constraints |-> constraints,
              fired |-> <<>>, calls |-> <<"element_by_position">>]
        ELSE IF event.button = 2
        THEN [matching |-> FALSE, status |-> "removed", constraints |-> r2.constraints,
              fired |-> r1.fired \o r2.fired,
              calls |-> <<"element_by_position", "remove_constraint",
                          "remove_constraint">>]
        ELSE IF event.button # 1
        THEN [matching |-> FALSE, status |-> "other button", constraints |-> constraints,
              fired |-> <<>>, calls |-> <<"element_by_position">>]
        ELSE [matching |-> TRUE, status |-> "", constraints |-> a2.constraints,
              fired |-> (IF AddKey(event.key) THEN <<>> ELSE <<"clear_constraints">>)
                        \o a1.fired \o a2.fired,
              calls |-> <<"element_by_position", "SetCursor">>
                        \o (IF AddKey(event.key) THEN <<>> ELSE <<"clear_constraints">>)
                        \o <<"add_constraint", "get_twiss", "add_constraint">>]

\* MatchTool.on_match for one click.  With button 1 on an element the wait
\* cursor is set, the constraints are cleared unless shift or control is
\* held, the two constraints are added and match() is called; the cursor the
\* panel had is set again when match() has returned.  A target None makes
\* MatchTransform raise TypeError before anything else is done.
on_match(event) ==
    \E c \in {Click(event)} :
        /\ NumConstraints(c.constraints) <= MaxClickConstraints
        /\ IF ~c.matching
           THEN /\ constraints' = c.constraints
                /\ last' = [Idle EXCEPT !.op = "on_match", !.arg = <<event>>,
                                        !.previous = <<constraints>>,
                                        !.status = c.status, !.fired = c.fired,
                                        !.calls = c.calls]
                /\ UNCHANGED <<variable_parameters, madx, tw, summary, cursor>>
           ELSE IF HasNoTarget(c.constraints)
           THEN /\ constraints' = c.constraints
                /\ cursor' = "wait"
                /\ last' = [Idle EXCEPT !.op = "on_match", !.arg = <<event>>,
                                        !.previous = <<constraints>>,
                                        !.status = "TypeError", !.fired = c.fired,
                                        !.calls = c.calls \o <<"match">>]
                /\ UNCHANGED <<variable_parameters, madx, tw, summary>>
           ELSE \E order1 \in Orders(DOMAIN c.constraints),
                   order2 \in Orders(TransNamesOf(c.constraints)) :
                \E sel \in {SelectionOf(c.constraints, order1, order2)} :
                \E engine \in {"ok", "MatchFailed", "TwissFailed"}, solved \in solutions :
                \E out \in {MatchOutcome(sel.g, sel.todo, engine)} :
                \E seg \in {SegmentAfterMatch(out.status, solved)} :
                    /\ variable_parameters' =
                           CachedPools(variable_parameters,
                                       TransNamesOf(c.constraints), sel.g)
                    /\ constraints' = ConstraintsAfterMatch(c.constraints, out.status)
                    /\ madx' = seg.madx
                    /\ tw' = seg.tw
                    /\ summary' = seg.summary
                    /\ cursor' = IF out.status = "done" THEN cursor ELSE "wait"
                    /\ last' = [Idle EXCEPT !.op = "on_match", !.arg = <<event>>,
                                            !.previous = <<constraints>>,
                                            !.status = out.status,
                                            !.fired = c.fired \o out.fired,
                                            !.calls = c.calls \o <<"match">>
                                                \o (IF out.status = "done"
                                                    THEN <<"SetCursor">> ELSE <<>>),
                                            !.trace = sel.g.trace,
                                            !.vary = out.vary,
                                            !.submitted = out.submitted,
                                            !.solver = out.solver,
                                            !.twiss = out.twiss,
                                            !.request = out.request,
                                            !.seen = seg.seen]
        /\ UNCHANGED <<elements, range, rules, view_axes, sequence, twiss_args,
                       cid, solutions, handlers, beam, madx_beam, segment, slots>>

\* The segments of the panels that are clicked on in matching mode.
ClickSetups == ToolSetups \cup {m \in Setups : Len(m.elements) = 4}

\* A MatchTool in matching mode: start_match has connected the click handler
\* and made the Matching.
InitClick ==
    /\ \E m \in ClickSetups : Constructed(m)
    /\ constraints = <<>>
    /\ variable_parameters = <<>>
    /\ last = Idle
    /\ cid = "button_press_event"
    /\ solutions = {1}
    /\ handlers = 1

\* The canvas calls the connected handler for every click.
NextClick ==
    \E inaxes \in ClickAxes, xdata \in ClickPositions, ydata \in ToolValues,
       button \in Buttons, key \in Keys :
        /\ handlers > 0
        /\ on_match([inaxes |-> inaxes, xdata |-> xdata, ydata |-> ydata,
                     button |-> button, key |-> key])

SpecClick == InitClick /\ [][NextClick]_vars

-----------------------------------------------------------------------------
(* Properties.  After a call of match, last.trace holds one entry per      *)
(* constraint the greedy selection visited: the constraint's element, the  *)
(* working pool of its axis at that moment, the candidate chosen (NoKnob   *)
(* when none was allowed) and what _get_any_elem_param gave for it.        *)

Matched == last.op = "match"
Assigned(t) == t.knob # NoKnob
Upstream(t) == {i \in DOMAIN t.pool : t.pool[i][1].at < t.elem.at}

HasExpression(elem, param) ==
    param \in DOMAIN elem /\ elem[param].expression # NoExpression
NonzeroLiteral(elem, param) ==
    /\ param \in DOMAIN elem
    /\ elem[param].expression = NoExpression
    /\ elem[param].value # 0
Usable(elem, param) == HasExpression(elem, param) \/ NonzeroLiteral(elem, param)
Resolvable(v) == \E i \in DOMAIN v[2] : Usable(v[1], v[2][i])
Path(elem, param) == elem.name \o "->" \o param

\* Python's 0-based index of an element of the sequence, and Segment.contains.
IndexOf(elem) == (CHOOSE i \in DOMAIN elements : elements[i].name = elem.name) - 1
InSegment(elem) == range.start <= IndexOf(elem) /\ IndexOf(elem) <= range.stop

\* C1 (as claimed): in a match() that reaches the solver, no element is the
\* knob of two constraints, whatever the axes' rule tables list for its type.
C1_NoElementTwiceInVary ==
    (Matched /\ last.solver = 1) =>
        \A i, j \in DOMAIN last.trace :
            (i # j /\ Assigned(last.trace[i]) /\ Assigned(last.trace[j]))
                => last.trace[i].knob[1].name # last.trace[j].knob[1].name

\* C2: every knob assigned by match() lies strictly upstream of the element
\* of its constraint: its `at` is less than the constraint element's `at`.
C2_KnobStrictlyUpstream ==
    Matched =>
        \A i \in DOMAIN last.trace :
            Assigned(last.trace[i])
                => last.trace[i].knob[1].at < last.trace[i].elem.at

\* C2 witness: a knob was assigned while the pool also held a candidate at
\* the very position of the constraint (here the constrained element itself).
C2_Witness ==
    /\ Matched /\ last.status = "done"
    /\ \E i \in DOMAIN last.trace :
          /\ Assigned(last.trace[i])
          /\ \E k \in DOMAIN last.trace[i].pool :
                last.trace[i].pool[k][1] = last.trace[i].elem

\* C3: whenever the working pool holds a candidate strictly upstream of the
\* constraint, a candidate is chosen, it is one of them, and none of them
\* lies further downstream than it; with candidates at 10, 25, 40 and the
\* constraint at 50 it is the one at 40.
C3_ClosestUpstream ==
    Matched =>
        \A i \in DOMAIN last.trace :
            LET t == last.trace[i]
            IN  Upstream(t) # {} =>
                    /\ Assigned(t)
                    /\ \E k \in Upstream(t) : t.pool[k] = t.knob
                    /\ \A k \in Upstream(t) : t.pool[k][1].at <= t.knob[1].at
                    /\ ({t.pool[k][1].at : k \in DOMAIN t.pool} = {10, 25, 40}
                        /\ t.elem.at = 50) => t.knob[1].at = 40

\* C3 witness: candidates at 10, 25 and 40, the constraint at 50.
C3_Witness ==
    /\ Matched
    /\ \E i \in DOMAIN last.trace :
          /\ {last.trace[i].pool[k][1].at : k \in DOMAIN last.trace[i].pool} = {10, 25, 40}
          /\ last.trace[i].elem.at = 50
          /\ Assigned(last.trace[i])

\* C4: a constraint with no candidate strictly upstream is left without a
\* knob; match() raises ValueError exactly when a chosen candidate has no
\* usable parameter; otherwise every constraint is visited and the request,
\* with all constraints, goes to the solver.
C4_NoCandidateIsNotAnError ==
    Matched =>
        /\ \A i \in DOMAIN last.trace :
              Upstream(last.trace[i]) = {} => ~Assigned(last.trace[i])
        /\ last.status = "ValueError" <=>
              \E i \in DOMAIN last.trace :
                  Assigned(last.trace[i]) /\ ~Resolvable(last.trace[i].knob)
        /\ last.status # "ValueError" =>
              /\ Len(last.trace) = NumConstraints(constraints)
              /\ last.solver = 1
              /\ Len(last.submitted) = NumConstraints(constraints)

\* C4 witness: a constraint was left without a knob, a later one got a knob,
\* and the solver was called.
C4_Witness ==
    /\ Matched /\ last.solver = 1
    /\ \E i, j \in DOMAIN last.trace :
          i < j /\ ~Assigned(last.trace[i]) /\ Assigned(last.trace[j])

\* C5 (as claimed): the literal name->param path is returned only if none of
\* the candidate's eligible parameters has an expression.
C5_ExpressionPreferred ==
    Matched =>
        \A i \in DOMAIN last.trace :
            LET t == last.trace[i]
            IN  (Assigned(t) /\ \E k \in DOMAIN t.knob[2] :
                                    t.expr = Path(t.knob[1], t.knob[2][k]))
                    => ~\E k \in DOMAIN t.knob[2] : HasExpression(t.knob[1], t.knob[2][k])

\* C5 (amended): the first eligible parameter, in rule-table order, that the
\* element has and that is expression-backed or a nonzero literal decides:
\* its expression if it has one, else the name->param path; ValueError when
\* there is no such parameter.
C5_FirstUsableParameter ==
    Matched =>
        \A i \in DOMAIN last.trace :
            LET t == last.trace[i]
                usable == {k \in DOMAIN t.knob[2] : Usable(t.knob[1], t.knob[2][k])}
                k0 == CHOOSE k \in usable : \A j \in usable : k <= j
            IN  Assigned(t) =>
                    t.expr = IF usable = {} THEN ValueError
                             ELSE IF HasExpression(t.knob[1], t.knob[2][k0])
                             THEN t.knob[1][t.knob[2][k0]].expression
                             ELSE Path(t.knob[1], t.knob[2][k0])

\* C5 witness: the path of a nonzero literal was returned although a later
\* eligible parameter of the candidate has an expression.
C5_Witness ==
    /\ Matched
    /\ \E i \in DOMAIN last.trace :
          LET t == last.trace[i]
          IN  /\ Assigned(t)
              /\ \E k \in DOMAIN t.knob[2] :
                    /\ t.expr = Path(t.knob[1], t.knob[2][k])
                    /\ \E j \in DOMAIN t.knob[2] :
                          j > k /\ HasExpression(t.knob[1], t.knob[2][j])

\* C6: if a chosen candidate has no eligible parameter that is
\* expression-backed or nonzero, match() raises: the solver is not called,
\* nothing is submitted, twiss() is not called and no update is fired.
C6_ResolutionFailureAborts ==
    (Matched /\ \E i \in DOMAIN last.trace :
                    Assigned(last.trace[i]) /\ ~Resolvable(last.trace[i].knob))
        => /\ last.status = "ValueError"
           /\ last.solver = 0
           /\ last.twiss = 0
           /\ last.vary = <<>>
           /\ last.submitted = <<>>
           /\ last.fired = <<>>

\* C6 witness: the failure came after another constraint had got its knob.
C6_Witness ==
    /\ Matched /\ last.status = "ValueError"
    /\ \E i, j \in DOMAIN last.trace :
          /\ i < j
          /\ Assigned(last.trace[i]) /\ Resolvable(last.trace[i].knob)
          /\ Assigned(last.trace[j]) /\ ~Resolvable(last.trace[j].knob)

\* The scenario of C7: Q1(at=0, quad), D1(at=5, drift), Q2(at=10, quad), one
\* envelope-x constraint at D1, and a match() that reached the solver.
C7_Scenario(table) ==
    /\ elements = <<Quad0, Drift5, Quad10>>
    /\ rules = table
    /\ Matched /\ last.solver = 1
    /\ DOMAIN constraints = {"envx"}
    /\ Len(constraints["envx"]) = 1
    /\ constraints["envx"][1][1] = Drift5

\* C7 (as claimed): with quad allowed as a knob for the axis envelope-x via
\* k1, the scenario selects Q1 and submits the single vary entry Q1->k1.
C7_RulesOfUserAxis ==
    C7_Scenario(RulesUserAxis) => last.vary = <<"Q1->k1">>

\* C7 (amended): the candidates of a constraint come from the rule table
\* kept under the name of the underlying quantity (betx for envelope-x);
\* with quad allowed for betx via k1, the scenario selects Q1 and submits
\* the single vary entry Q1->k1.
C7_RulesOfUnderlyingQuantity ==
    /\ Matched =>
          \A i \in DOMAIN last.trace :
              \A k \in DOMAIN last.trace[i].pool :
                  LET v == last.trace[i].pool[k]
                      axis == last.trace[i].axis
                  IN  /\ axis \in DOMAIN rules
                      /\ v[1].type \in DOMAIN rules[axis]
                      /\ v[2] = rules[axis][v[1].type]
    /\ C7_Scenario(RulesSame) =>
          /\ last.vary = <<"Q1->k1">>
          /\ last.trace[1].knob[1] = Quad0

\* C7 witness: the scenario, with the rule table kept under betx.
C7_Witness == C7_Scenario(RulesSame)

\* C8 (as claimed): a constraint whose element lies outside
\* [start.index, stop.index] is never passed to the solver and never gets a
\* knob.
C8_OutsideSegmentRejected ==
    Matched =>
        /\ \A i \in DOMAIN last.submitted :
              \A k \in DOMAIN elements :
                  elements[k].name = last.submitted[i].range => InSegment(elements[k])
        /\ \A i \in DOMAIN last.trace :
              Assigned(last.trace[i]) => InSegment(last.trace[i].elem)

\* C9: every axis holds at most one constraint per element name.
C9_OneConstraintPerElement ==
    \A axis \in DOMAIN constraints :
        \A i, j \in DOMAIN constraints[axis] :
            i # j => constraints[axis][i][1].name # constraints[axis][j][1].name

\* C9 witness: an add_constraint replaced the element's constraint on an
\* axis that holds another element's constraint as well.
C9_Witness ==
    /\ last.op = "add_constraint"
    /\ last.removed # <<>>
    /\ Len(constraints[last.axis]) >= 2

\* C10: after add(axis, element, v2), also when it follows
\* add(axis, element, v1), find(axis, element) is exactly the one constraint
\* (element, v2).
C10_AddTwiceKeepsLast ==
    last.op = "add_constraint" =>
        find_constraint(last.axis, last.elem) = << <<last.elem, last.value>> >>

\* C10 witness: the add replaced a constraint of the same element and axis
\* that carried another value.
C10_Witness ==
    /\ last.op = "add_constraint"
    /\ Len(last.removed) = 1
    /\ last.removed[1][1] = last.elem
    /\ last.removed[1][2] # last.value
    /\ find_constraint(last.axis, last.elem) = << <<last.elem, last.value>> >>

\* C11: after remove(axis, element) find(axis, element) is empty, also when it
\* follows add(axis, element, v); when the axis held no other constraint its
\* key is gone from the mapping; and no axis ever maps to an empty list.
C11_NoEmptyAxis ==
    /\ \A axis \in DOMAIN constraints : constraints[axis] # <<>>
    /\ last.op = "remove_constraint" =>
          /\ find_constraint(last.axis, last.elem) = <<>>
          /\ last.axis \in DOMAIN constraints =>
                \E i \in DOMAIN constraints[last.axis] :
                    constraints[last.axis][i][1].name # last.elem.name

\* C11 witness: the remove took away the only constraint of its axis, and the
\* axis key went with it.
C11_Witness ==
    /\ last.op = "remove_constraint"
    /\ last.removed # <<>>
    /\ last.axis \notin DOMAIN constraints

\* The element of the remove_constraint call that has just returned held a
\* constraint on the call's axis before the call.
HadConstraint ==
    \E i \in DOMAIN gconstr(constraints, last'.axis) :
        constraints[last'.axis][i][1].name = last'.elem.name

\* C12: remove(axis, element) fires the remove_constraint hook if and only if
\* it removed at least one constraint; a remove that finds nothing to remove
\* leaves the constraint set as it was and fires nothing.
C12_RemoveNotifiesIffRemoved ==
    [][last'.op = "remove_constraint" =>
          /\ (last'.fired = <<"remove_constraint">>) <=> HadConstraint
          /\ HadConstraint =>
                /\ last'.removed # <<>>
                /\ Len(gconstr(constraints', last'.axis))
                       < Len(gconstr(constraints, last'.axis))
          /\ ~HadConstraint =>
                /\ constraints' = constraints
                /\ last'.removed = <<>>
                /\ last'.fired = <<>>]_vars

\* C12 witness: a remove for an element without a constraint, on an axis that
\* holds the constraint of another element, fired nothing.
C12_Witness ==
    /\ last.op = "remove_constraint"
    /\ last.fired = <<>>
    /\ last.axis \in DOMAIN constraints

\* C13 as stated: every add(axis, element, value) fires exactly one
\* notification, after the new constraint has been appended.
C13_ExactlyOneNotification ==
    last.op = "add_constraint" =>
        /\ Len(last.fired) = 1
        /\ last.observed = <<constraints>>

\* C13 amended: every add(axis, element, value) fires the add_constraint hook
\* exactly once, as its last notification, when the new constraint has been
\* appended; an add that replaces a constraint fires the remove_constraint
\* hook before that, when the old constraint is gone and the new one is not
\* yet appended.
C13_AddNotifiesAfterAppend ==
    last.op = "add_constraint" =>
        /\ last.fired[Len(last.fired)] = "add_constraint"
        /\ last.observed[Len(last.observed)] = constraints
        /\ find_constraint(last.axis, last.elem) = << <<last.elem, last.value>> >>
        /\ last.removed = <<>> => last.fired = <<"add_constraint">>
        /\ last.removed # <<>> =>
              /\ last.fired = <<"remove_constraint", "add_constraint">>
              /\ Len(last.observed) = 2
              /\ \A i \in DOMAIN gconstr(last.observed[1], last.axis) :
                    last.observed[1][last.axis][i][1].name # last.elem.name

\* C13 witness: the add replaced the constraint its element had on the axis.
C13_Witness ==
    /\ last.op = "add_constraint"
    /\ last.removed # <<>>
    /\ last.fired = <<"remove_constraint", "add_constraint">>
    /\ last.observed[2] = constraints

\* A call of match has just returned or raised.
MatchReturned == last'.op = "match"
MatchRaised == MatchReturned /\ last'.status # "done"

\* C14: match() never modifies the constraint set; after a match() that
\* raises (knob resolution, solver or TWISS failure) the mapping from axes to
\* constraints is what it was before the call.
C14_MatchKeepsConstraints ==
    [][MatchReturned => constraints' = constraints]_vars

\* C14 witness: a match() raised while constraints were set.
C14_Witness ==
    /\ Matched
    /\ last.status \in {"ValueError", "MatchFailed", "TwissFailed"}
    /\ constraints # <<>>

\* C15: when the solver call fails, match() has called the solver once and
\* twiss() not at all; the cached table and the summary are those of before
\* the call and no update notification is fired.
C15_SolverFailureSkipsTwiss ==
    [][(MatchReturned /\ last'.status = "MatchFailed") =>
          /\ last'.solver = 1
          /\ last'.twiss = 0
          /\ last'.calls = <<"madx.match">>
          /\ last'.fired = <<>>
          /\ tw' = tw
          /\ summary' = summary]_vars

\* C15 witness: the solver failed having moved the engine, and the cached
\* table is not the one a twiss() would give now.
C15_Witness ==
    /\ Matched
    /\ last.status = "MatchFailed"
    /\ last.vary # <<>>
    /\ tw # twiss(madx, elements, range, summary)

\* C16 (as claimed): whenever match() raises, the optics state of the engine
\* and the cached table and summary of the segment are all as before the
\* call.
C16_RaiseCommitsNothing ==
    [][MatchRaised => (madx' = madx /\ tw' = tw /\ summary' = summary)]_vars

\* C17: in a match() that completes, the solver is called exactly once, with
\* the sequence name, the vary list, the constraints list and the
\* unit-stripped initial optics; twiss() is called exactly once, after the
\* solver has returned, and the one update notification comes after both, so
\* that the table is the one of the solved engine.
C17_SolveThenTwissOnce ==
    (Matched /\ last.status = "done") =>
        /\ last.solver = 1
        /\ last.twiss = 1
        /\ last.calls = <<"madx.match", "madx.twiss", "update">>
        /\ last.fired = <<"update">>
        /\ last.request.sequence = sequence
        /\ last.request.vary = last.vary
        /\ last.request.constraints = last.submitted
        /\ DOMAIN last.request.twiss_init = DOMAIN twiss_args
        /\ \A k \in DOMAIN twiss_args :
              last.request.twiss_init[k] = twiss_args[k].magnitude
        /\ tw = twiss(madx, elements, range, summary)

\* C17 witness: a match() with a knob to vary completed and the engine is in
\* another optics state than at construction.
C17_Witness ==
    /\ Matched
    /\ last.status = "done"
    /\ last.vary # <<>>
    /\ last.submitted # <<>>
    /\ madx # 1

\* The constraints a call of match visited, in the order it visited them.
Visited(trace) == [i \in DOMAIN trace |-> <<trace[i].axis, trace[i].elem>>]

\* C18: the knobs a match() consumes are taken from copies: every pool cached
\* before the call is the same after it, whether the call returns or raises,
\* and a match() that follows a match() and visits the same constraints in
\* the same order makes the same choices and builds the same vary list.
C18_PoolsNotDepleted ==
    [][MatchReturned =>
          /\ \A axis \in DOMAIN variable_parameters :
                /\ axis \in DOMAIN variable_parameters'
                /\ variable_parameters'[axis] = variable_parameters[axis]
          /\ (Matched /\ Visited(last'.trace) = Visited(last.trace)) =>
                /\ last'.trace = last.trace
                /\ (last'.solver = 1 /\ last.solver = 1) => last'.vary = last.vary]_vars

\* C18 witness: a match() assigned a knob, and the cached pool of the axis
\* still holds it.
C18_Witness ==
    /\ Matched
    /\ last.vary # <<>>
    /\ \E i \in DOMAIN last.trace :
          /\ Assigned(last.trace[i])
          /\ last.trace[i].axis \in DOMAIN variable_parameters
          /\ \E k \in DOMAIN variable_parameters[last.trace[i].axis] :
                variable_parameters[last.trace[i].axis][k] = last.trace[i].knob

\* C19: the pool of an axis is built at most once per Matching, by the
\* first match() that needs it: a pool once cached stays as it is until
\* start_match makes a new Matching, also when the element list has changed,
\* and a match() starts its selection from the cached pool; the Matching made
\* by start_match has no cached pool and no constraint.
C19_PoolBuiltOncePerSession ==
    [][/\ last'.op # "start_match" =>
              \A axis \in DOMAIN variable_parameters :
                  /\ axis \in DOMAIN variable_parameters'
                  /\ variable_parameters'[axis] = variable_parameters[axis]
       /\ (MatchReturned /\ last'.trace # <<>>
              /\ last'.trace[1].axis \in DOMAIN variable_parameters) =>
              last'.trace[1].pool = variable_parameters[last'.trace[1].axis]
       /\ last'.op = "start_match" =>
              (variable_parameters' = <<>> /\ constraints' = <<>>)]_vars

\* C19 witness: in a running session a match() has chosen its knob from a
\* cached pool that is no longer what the element list would give.
C19_Witness ==
    /\ Matched
    /\ cid # None
    /\ last.vary # <<>>
    /\ last.trace[1].pool = variable_parameters[last.trace[1].axis]
    /\ last.trace[1].pool # FilterElements(elements, rules[last.trace[1].axis])
    /\ last.trace[1].knob[1] \notin Range(elements)

\* The places in the element list of the elements whose type the rule table
\* of the axis lists.
Eligible(axis) ==
    {i \in DOMAIN elements :
        axis \in DOMAIN rules /\ elements[i].type \in DOMAIN rules[axis]}

\* C20: a cached pool holds exactly the elements whose type is a key of the
\* rule table of its axis, each with the parameter names the table lists for
\* the type, in the order of the element list; an axis without rule table
\* has the empty pool, and no constraint of it gets a knob.
C20_PoolIsFilteredElementList ==
    /\ \A axis \in DOMAIN variable_parameters :
          LET pool == variable_parameters[axis]
          IN  /\ Len(pool) = Cardinality(Eligible(axis))
              /\ \A i \in Eligible(axis) :
                    pool[Cardinality({j \in Eligible(axis) : j <= i})]
                        = <<elements[i], rules[axis][elements[i].type]>>
              /\ axis \notin DOMAIN rules => pool = <<>>
    /\ Matched =>
          \A i \in DOMAIN last.trace :
              last.trace[i].axis \notin DOMAIN rules => ~Assigned(last.trace[i])

\* C20 witness: a match() took its knob from a pool that holds two elements
\* of the list and leaves out a third, whose type the rule table lacks.
C20_Witness ==
    /\ Matched
    /\ last.vary # <<>>
    /\ \E axis \in DOMAIN variable_parameters :
          /\ Len(variable_parameters[axis]) = 2
          /\ Len(elements) > 2
          /\ variable_parameters[axis][1][1].at < variable_parameters[axis][2][1].at

\* C21: stop_match in matching mode leaves the constraint set empty and no
\* click handler of the tool connected; as long as the tool is stopped no
\* click adds a constraint or runs match(), the next operation of the
\* session is start_match.
C21_StopClearsAndReleases ==
    /\ cid = None => (constraints = <<>> /\ handlers = 0)
    /\ last.op = "stop_match" => (cid = None /\ constraints = <<>> /\ handlers = 0)
    /\ last.op \in {"add_constraint", "remove_constraint", "clear_constraints", "match"}
          => cid # None

\* C21 witness: stop_match has ended a session that held a constraint.
C21_Witness ==
    /\ last.op = "stop_match"
    /\ last.fired = <<"clear_constraints", "stop">>
    /\ variable_parameters # <<>>
    /\ constraints = <<>>
    /\ handlers = 0

\* C22: when the engine gives no TWISS result, the recomputation stops with
\* the cached table and the summary as they were before the call, and the
\* update observers are not notified.
C22_FailedTwissKeepsCache ==
    [][last'.status = "TwissFailed"
          => (tw' = tw /\ summary' = summary
              /\ last'.fired = <<>> /\ last'.seen = <<>>)]_vars

\* C22 witness: the beam setter gave a new beam to the engine, twiss() failed,
\* and the segment still holds the table and the summary of the old beam.
C22_Witness ==
    /\ last.op = "set_beam" /\ last.status = "TwissFailed"
    /\ last.previous # <<beam>>
    /\ summary = EngineSummary(use_beam(last.previous[1]))
    /\ tw = twiss(madx, elements, range, summary)

\* C23: assigning beam or twiss_args stores the value and calls twiss(),
\* whatever the value was before; the beam is given to the engine before the
\* TWISS table is asked for.
C23_SetterStoresAndRecomputes ==
    /\ last.op = "set_twiss_args" =>
          /\ twiss_args = last.arg[1]
          /\ Len(last.calls) >= 1 /\ last.calls[1] = "madx.twiss"
          /\ last.request.twiss_init = dict_strip_unit(last.arg[1])
    /\ last.op = "set_beam" =>
          /\ beam = last.arg[1]
          /\ madx_beam = use_beam(last.arg[1])
          /\ Len(last.calls) >= 2
          /\ last.calls[1] = "madx.command.beam" /\ last.calls[2] = "madx.twiss"

\* C23 witness: the beam was assigned the value it had, after a twiss() that
\* had failed for it, and the table was computed again for it.
C23_Witness ==
    /\ last.op = "set_beam" /\ last.previous = last.arg
    /\ last.status = "done" /\ last.arg = <<BeamB>>
    /\ summary = EngineSummary(use_beam(BeamB))

\* C24: a successful twiss() fires update once, and what the observer reads
\* is the finished table: the new summary, s shifted, envelopes and aliases
\* in every row.
C24_UpdateSeesFinishedTable ==
    (last.op \in {"set_twiss_args", "set_beam", "match"} /\ last.status = "done") =>
        /\ last.fired = <<"update">>
        /\ Len(last.seen) = 1
        /\ last.seen[1].tw = tw /\ last.seen[1].summary = summary
        /\ summary = EngineSummary(madx_beam)
        /\ tw = twiss(madx, elements, range, summary)
        /\ \A i \in DOMAIN tw :
              {"envx", "envy", "posx", "posy"} \subseteq DOMAIN last.seen[1].tw[i]

\* C24 witness: twiss() succeeded for a changed beam on a range that does not
\* start at 0.
C24_Witness ==
    /\ last.op = "set_beam" /\ last.status = "done" /\ last.previous # <<beam>>
    /\ last.fired = <<"update">>
    /\ elements[range.start + 1].at > 0
    /\ Len(last.seen[1].tw) >= 2

\* C27: while a segment has a table, each entry of its column s is the
\* engine's local position plus start.at, however often twiss() was called.
C27_PositionShiftedOnce ==
    (segment # <<>>) =>
        \A i \in DOMAIN tw :
            tw[i].s = raw_twiss(madx, elements, range)[i].s
                          + elements[range.start + 1].at

\* C27 witness: a second twiss() succeeded on a segment whose range starts at
\* 25: the first row is at 25.
C27_Witness ==
    /\ last.op \in {"set_twiss_args", "set_beam"} /\ last.status = "done"
    /\ elements[range.start + 1].at = 25
    /\ raw_twiss(madx, elements, range)[1].s = 0
    /\ tw[1].s = 25

\* C28: after a successful twiss(), in every row envx is the square root of
\* betx * ex and envy of bety * ey, with ex and ey of the summary of that
\* call, and posx = x, posy = y.
C28_EnvelopesFromNewSummary ==
    (last.op \in {"set_twiss_args", "set_beam", "init_segment", "match"}
        /\ last.status = "done") =>
        /\ summary = EngineSummary(madx_beam)
        /\ \A i \in DOMAIN tw :
              /\ tw[i].envx * tw[i].envx = tw[i].betx * summary.ex
              /\ tw[i].envy * tw[i].envy = tw[i].bety * summary.ey
              /\ tw[i].posx = tw[i].x
              /\ tw[i].posy = tw[i].y

\* C28 witness: twiss() succeeded after the beam went from ex = 2, ey = 4 to
\* ex = 8, ey = 1: envx is 4 where it was 2.
C28_Witness ==
    /\ last.op = "set_beam" /\ last.status = "done"
    /\ last.previous = <<BeamA>> /\ beam = BeamB
    /\ summary.ex = 8
    /\ tw[1].envx = 4 /\ tw[1].envy = 1

\* C25: get_twiss(element, quantity) gives the entry of the cached table at
\* the offset element.index - start.index when the element is within the
\* range, and None otherwise; the table is not touched.
C25_GetTwissByOffset ==
    [][last'.op = "get_twiss" =>
          /\ tw' = tw /\ summary' = summary
          /\ IF range.start <= IndexOf(last'.elem) /\ IndexOf(last'.elem) <= range.stop
             THEN last'.result
                    = << tw[IndexOf(last'.elem) - range.start + 1][last'.axis] >>
             ELSE last'.result = <<>>]_vars

\* C25 witness: on a range that starts at the second element, s was asked for
\* the third element and the second row of the table was given.
C25_Witness ==
    /\ last.op = "get_twiss" /\ last.axis = "s"
    /\ range.start = 1 /\ range.stop >= 2 /\ IndexOf(last.elem) = 2
    /\ last.result = << tw[2].s >>
    /\ tw[2].s # tw[1].s

\* The indices of the elements whose closed interval [at, at + l] holds p.
Holding(p) == {i \in DOMAIN elements :
                  elements[i].at <= p /\ p <= elements[i].at + elements[i].l}

\* C26: element_by_position gives the first element in sequence order whose
\* closed interval [at, at + l] holds the position, and None when the
\* position is None or no interval holds it.
C26_FirstElementHolding ==
    last.op = "element_by_position" =>
        IF last.arg = <<>> THEN last.result = <<>>
        ELSE IF Holding(last.arg[1]) = {} THEN last.result = <<>>
        ELSE last.result
               = << elements[CHOOSE i \in Holding(last.arg[1]) :
                               \A j \in Holding(last.arg[1]) : i <= j] >>

\* C26 witness: the position is the end of one element and the start of the
\* next two; the first of the three is given.
C26_Witness ==
    /\ last.op = "element_by_position" /\ last.arg # <<>>
    /\ Cardinality(Holding(last.arg[1])) = 3
    /\ last.result # <<>>
    /\ last.result[1].at + last.result[1].l = last.arg[1]
    /\ last.result[1].l > 0

Quantity(axis) ==
    CASE axis = "envx" -> "betx"
      [] axis = "envy" -> "bety"
      [] axis \in {"x", "posx"} -> "x"
      [] axis \in {"y", "posy"} -> "y"

\* The emittance that divides the square of a target of an axis, read from
\* the summary em.
Emittance(axis, em) == IF axis = "envx" THEN em.ex ELSE em.ey

\* The entry c of the list given to the solver is the constraint
\* (elem, v) of the axis, transformed with the emittances em.
Transformed(c, axis, elem, v, em) ==
    /\ c.range = elem.name
    /\ c.name = Quantity(axis)
    /\ IF axis \in {"envx", "envy"}
       THEN c.value * Emittance(axis, em) = v * v
       ELSE c.value = v

\* C29: the list match() gives to the solver holds, for every constraint, the
\* quantity of its axis with the target v*v/ex (envx), v*v/ey (envy) or v
\* (positions), ex and ey being those of the summary the segment holds when
\* match() starts; the entries of one quantity stand together.
C29_TransformWithSummaryAtStart ==
    [][(last'.op = "match" /\ last'.solver = 1) =>
          /\ Len(last'.submitted) = NumConstraints(constraints)
          /\ \A axis \in DOMAIN constraints : \A i \in DOMAIN constraints[axis] :
                \E k \in DOMAIN last'.submitted :
                    Transformed(last'.submitted[k], axis, constraints[axis][i][1],
                                constraints[axis][i][2], summary)
          /\ \A i, j, k \in DOMAIN last'.submitted :
                (i < j /\ j < k /\ last'.submitted[i].name = last'.submitted[k].name)
                    => last'.submitted[j].name = last'.submitted[i].name]_vars

\* C29 witness: match() gave the solver an envx target of 4 as betx = 8, with
\* ex = 2 of the summary it held at the start, while the engine had the beam
\* with ex = 8 and the summary after match() has ex = 8.
C29_Witness ==
    /\ last.op = "match" /\ last.status = "done"
    /\ \E k \in DOMAIN last.submitted :
          last.submitted[k].name = "betx" /\ last.submitted[k].value = 8
    /\ "envx" \in DOMAIN constraints
    /\ summary.ex = 8

\* C31 (as claimed): a segment that has been constructed has
\* start.index <= stop.index, whatever names its range was given by.
C31_StartNotAfterStop ==
    (segment # <<>>) => range.start <= range.stop

\* The constraints of the constraint set on the element called name that
\* are given to the solver under the quantity q, as (axis, position) pairs.
ConstraintsFor(name, q) ==
    UNION {{<<axis, i>> : i \in {i \in DOMAIN constraints[axis] :
                                    constraints[axis][i][1].name = name}} :
           axis \in {a \in DOMAIN constraints : Quantity(a) = q}}

\* C32: a match() whose selection did not raise calls the solver, also with
\* an empty vary list, and gives it one entry per constraint of the
\* constraint set, with or without a knob: the element's name, the quantity
\* of the axis and the transformed target.
C32_OneEntryPerConstraint ==
    (Matched /\ last.status # "ValueError") =>
        /\ last.solver = 1
        /\ last.request.vary = last.vary
        /\ last.request.constraints = last.submitted
        /\ \A e \in Range(elements), q \in {"betx", "bety", "x", "y"} :
              Cardinality({k \in DOMAIN last.submitted :
                              /\ last.submitted[k].range = e.name
                              /\ last.submitted[k].name = q})
                  = Cardinality(ConstraintsFor(e.name, q))
        /\ \A k \in DOMAIN last.submitted :
              \E axis \in DOMAIN constraints : \E i \in DOMAIN constraints[axis] :
                  Transformed(last.submitted[k], axis, constraints[axis][i][1],
                              constraints[axis][i][2], summary)

\* C32 witness: no constraint had a candidate upstream, the vary list was
\* empty, and the solver was called with the two constraints.
C32_Witness ==
    /\ Matched /\ last.status = "done" /\ last.solver = 1
    /\ last.vary = <<>>
    /\ Len(last.submitted) = 2
    /\ \A i \in DOMAIN last.trace : ~Assigned(last.trace[i])

\* The names of the elements whose knob a greedy selection put in the vary
\* list, read from its trace.
KnobElements(trace) ==
    {trace[i].knob[1].name :
        i \in {j \in DOMAIN trace : /\ Assigned(trace[j])
                                    /\ trace[j].expr \notin {ValueError, None}}}

\* The greedy selection of match() run again on the constraints of its trace,
\* taken in the order p (a permutation of their positions).
Reselect(trace, p) ==
    Greedy([allvars |-> [axis \in {trace[i].axis : i \in DOMAIN trace} |->
                            Allvars(variable_parameters, axis)],
            vary |-> <<>>, raised |-> FALSE, trace |-> <<>>],
           [i \in DOMAIN p |-> [axis |-> trace[p[i]].axis, elem |-> trace[p[i]].elem]])

\* C35: when all constraints of a match() are given to the solver under one
\* quantity, the selection run on them in any other order chooses knobs of
\* the same set of elements.
C35_KnobSetIndependentOfOrder ==
    (Matched /\ last.status # "ValueError" /\ Cardinality(TransNames) = 1) =>
        \A p \in Orders(DOMAIN last.trace) :
            /\ ~Reselect(last.trace, p).raised
            /\ KnobElements(Reselect(last.trace, p).trace) = KnobElements(last.trace)

\* C35 witness: two constraints of one quantity at different elements got
\* the knobs of two elements.
C35_Witness ==
    /\ Matched /\ last.status = "done" /\ Cardinality(TransNames) = 1
    /\ Len(last.trace) = 2
    /\ last.trace[1].elem.at # last.trace[2].elem.at
    /\ Cardinality(KnobElements(last.trace)) = 2

\* C36: a MatchTool never has more than one click handler connected;
\* start_match in matching mode first stops the running session, which
\* disconnects its handler and clears its constraints, and then connects the
\* new handler; stop_match outside matching mode changes nothing and fires
\* nothing.
C36_AtMostOneHandler ==
    [][/\ handlers' <= 1
       /\ (last'.op = "start_match" /\ cid # None) =>
             /\ last'.fired = <<"capture_mouse", "clear_constraints", "stop", "start">>
             /\ last'.calls = <<"mpl_disconnect", "mpl_connect">>
             /\ last'.observed = << <<>> >>
             /\ handlers' = 1 /\ constraints' = <<>>
       /\ (last'.op = "start_match" /\ cid = None) =>
             /\ last'.fired = <<"capture_mouse", "start">>
             /\ handlers' = 1
       /\ (last'.op = "stop_match" /\ cid = None) =>
             /\ last'.fired = <<>>
             /\ UNCHANGED <<constraints, handlers, cid>>]_vars

\* C36 witness: start_match was called in matching mode: the running session
\* was stopped, one handler is connected and no constraint is left.
C36_Witness ==
    /\ last.op = "start_match"
    /\ last.fired = <<"capture_mouse", "clear_constraints", "stop", "start">>
    /\ last.calls = <<"mpl_disconnect", "mpl_connect">>
    /\ handlers = 1 /\ constraints = <<>>

\* C34: a call of a hook runs the handlers that were connected when the
\* call started, each once, in the order of their registration, whatever the
\* handlers connect or disconnect meanwhile; only a handler that raises ends
\* the call before the others have run.
C34_DispatchOverSnapshot ==
    [][last'.op = "call_hook" =>
          /\ last'.status = "done" => last'.ran = slots
          /\ last'.status # "done" =>
                /\ Len(last'.ran) >= 1 /\ Len(last'.ran) <= Len(slots)
                /\ last'.ran = SubSeq(slots, 1, Len(last'.ran))]_vars

\* C34 witness: h1, h2, h3 were connected in this order; h1 disconnected h3
\* and h2 connected h1 once more; the three ran once each, in this order.
C34_Witness ==
    /\ last.op = "call_hook" /\ last.status = "done"
    /\ last.previous = <<"h1", "h2", "h3">>
    /\ last.arg[1]["h1"] = [kind |-> "disconnect", slot |-> "h3"]
    /\ last.arg[1]["h2"] = [kind |-> "connect", slot |-> "h1"]
    /\ last.ran = <<"h1", "h2", "h3">>
    /\ slots = <<"h1", "h2", "h1">>

\* C37 (as claimed): every knob match() selects is an element of the
\* segment's range, start.index <= index <= stop.index.
C37_KnobInsideRange ==
    (Matched /\ last.solver = 1) =>
        \A i \in DOMAIN last.trace :
            Assigned(last.trace[i]) => InSegment(last.trace[i].knob[1])

\* C38 (as claimed): the vary list given to the solver has no entry twice.
C38_NoDuplicateInVary ==
    (Matched /\ last.solver = 1) =>
        \A i, j \in DOMAIN last.vary : i # j => last.vary[i] # last.vary[j]


\* C33 (as claimed): a click with another button than the left one never
\* calls match(); when a left click without shift or control calls match(),
\* the constraint set is exactly the clicked constraint and, on the conjugate
\* axis, a constraint of the clicked element whose target is the value the
\* table holds for it; with shift or control the constraints of the other
\* elements are kept and these two are added.
C33_ClickConstraints ==
    [][ last'.op = "on_match" =>
          LET ev == last'.arg[1]
              reached == "match" \in Range(last'.calls)
              name == ev.inaxes[1].name
              conj == ev.inaxes[1].conj
              elem == ElementByPosition(elements, <<ev.xdata>>)[1]
              held == GetTwiss(elem, conj)
              Others(cs, axis) ==
                  SelectSeq(gconstr(cs, axis), LAMBDA c : c[1].name # elem.name)
              Clicked(cs, axis) ==
                  SelectSeq(gconstr(cs, axis), LAMBDA c : c[1].name = elem.name)
          IN  /\ ev.button # 1 => ~reached
              /\ reached =>
                    /\ held # <<>>
                    /\ Clicked(constraints', name) = << <<elem, ev.ydata>> >>
                    /\ Clicked(constraints', conj) = << <<elem, held[1]>> >>
                    /\ \A axis \in DOMAIN constraints \cup DOMAIN constraints' :
                          Others(constraints', axis) =
                              IF AddKey(ev.key) THEN Others(constraints, axis)
                              ELSE <<>>
      ]_vars

\* C39 (as claimed): when the click handler has ended, the panel has the
\* cursor it had before the click, whether match() returned or raised.
C39_CursorRestored == last.op = "on_match" => cursor = "orig"

====
